---- MODULE Spec2Model ----
(***************************************************************************)
(* SANA-FE: the NoC-aware message scheduler (src/src/schedule.cpp) and the *)
(* list-based priority queue of the earlier C kernel (src/sim.c).          *)
(*                                                                         *)
(* Doubles are modelled as exact rationals <<n, d>> in lowest terms with   *)
(* d > 0; the initial -infinity of a Message timestamp is <<-1, 0>>.       *)
(***************************************************************************)
EXTENDS Integers, Sequences, FiniteSets, TLC

(***************************************************************************)
(* Bounds of the model                                                     *)
(***************************************************************************)
\* largest number of messages in all per-core queues together
MaxMsgs == 2

(***************************************************************************)
(* Exact arithmetic on doubles                                             *)
(***************************************************************************)
Abs(i) == IF i < 0 THEN -i ELSE i

RECURSIVE Gcd(_, _)
Gcd(a, b) == IF b = 0 THEN a ELSE Gcd(b, a % b)

NegInf == <<-1, 0>>
IsNegInf(a) == a[2] = 0

RNorm(n, d) ==
    LET g == Gcd(Abs(n), Abs(d))
        s == IF d < 0 THEN -1 ELSE 1
    IN  <<(s * n) \div g, (s * d) \div g>>

R(i) == <<i, 1>>
RAdd(a, b) == RNorm(a[1] * b[2] + b[1] * a[2], a[2] * b[2])
RSub(a, b) == RNorm(a[1] * b[2] - b[1] * a[2], a[2] * b[2])
RMul(a, b) == RNorm(a[1] * b[1], a[2] * b[2])
RDiv(a, b) == RNorm(a[1] * b[2], a[2] * b[1])
RLe(a, b) ==
    IF IsNegInf(a) THEN TRUE
    ELSE IF IsNegInf(b) THEN FALSE
    ELSE a[1] * b[2] <= b[1] * a[2]
RLt(a, b) == ~RLe(b, a)
\* fmax(a, b)
FMax(a, b) == IF RLe(a, b) THEN b ELSE a

(***************************************************************************)
(* The mesh                                                                *)
(***************************************************************************)
north == 0
east == 1
south == 2
west == 3
ndirections == 4

\* the generation and receive delays the pipeline phases may produce
Delays == {0, 1}
\* the cores that have neurons mapped to them: the two tiles of the row
\* y = 0, so that routes of different source cores share links
SourceCores == {0, 2}

\* enum BufferPosition
BUFFER_BEFORE_DENDRITE_UNIT == 0
BUFFER_BEFORE_SOMA_UNIT == 1
BUFFER_BEFORE_AXON_OUT_UNIT == 2

\* the cores of the pipeline, in the order of arch.cores(): core 0 on tile
\* (0,0), core 2 on tile (1,0), east of it, and core 3 on tile (1,1),
\* north of core 2
PipeCores == <<0, 2, 3>>

\* the cores of the C kernel that have a message queue
ListCores == 0..2
\* the generation delays of the messages of the C kernel: three values, so
\* that a queue can belong between two queues of the list
ListDelays == {0, 1, 2}

\* The Scheduler configurations the runs are drawn from
SchedulerConfigs ==
    { [noc_width |-> 2, noc_height |-> 2, core_count |-> 4,
       max_cores_per_tile |-> 1, buffer_size |-> b] : b \in 0..1 }

VARIABLES
    scheduler,              \* const Scheduler &scheduler
    messages,               \* std::vector<std::list<Message>> &messages
    pc,                     \* position in schedule_messages
    messages_sent_per_core, \* per core, the references still to be sent
    priority,               \* MessagePriorityQueue, in insertion order
    noc,                    \* NocInfo
    last_timestamp,
    m_cur,                  \* Message &m of the current iteration
    t_pop,                  \* m.sent_timestamp as popped: the t of schedule_update_noc
    route_density,          \* messages_along_route of the current iteration
    popped,                 \* the references popped so far, in order
    pushed,                 \* the references pushed so far, in order
    result                  \* the value returned

\* the C kernel (sim.c)
VARIABLES
    message_queues,         \* struct message_fifo *messages_sent: per core,
                            \* its messages from the tail (the oldest) on
    priority_queue,         \* the cores whose queues *priority_queue links
                            \* along next, the head first
    list_pc,                \* position in sim_schedule_messages
    q_cur,                  \* q of the current iteration
    m_sent,                 \* m->sent_timestamp of the current iteration
    inserted_at,            \* per core, the number of the insertion that
                            \* linked its queue into the list
    insertions              \* the calls of sim_insert_priority_queue so far

list_vars == <<message_queues, priority_queue, list_pc, q_cur, m_sent,
               inserted_at, insertions>>

\* the pipeline (pipeline.cpp)
VARIABLES
    arch,                   \* the configuration of the cores: the position
                            \* of the timestep buffer and the unit latencies
    neurons,                \* core.neurons, per core
    next_message_generation_delay,  \* per core
    ts_messages,            \* ts.messages, per core
    messages_in,            \* core.messages_in, per core: references into
                            \* ts_messages
    pipe_pc,                \* position in the timestep
    pipe_at,                \* the core and the neuron or message visited
    units,                  \* per core, what the units were asked to do in
                            \* the timestep: calls per side, latency reported
    tiles                   \* per tile, the hops and the messages counted
                            \* since the measurements were reset

pipe_vars == <<arch, neurons, next_message_generation_delay, ts_messages,
               messages_in, pipe_pc, pipe_at, units, tiles>>

\* the plugins (plugins.cpp)
VARIABLES
    plugin_create_synapse,  \* the factories of the synapse models, by
                            \* model name
    plugin_create_dendrite, \* the factories of the dendrite models
    plugin_create_soma,     \* the factories of the soma models
    plugin_result           \* what the latest plugin_get_... came to

plugin_vars == <<plugin_create_synapse, plugin_create_dendrite,
                 plugin_create_soma, plugin_result>>

vars == <<scheduler, messages, pc, messages_sent_per_core, priority, noc,
          last_timestamp, m_cur, t_pop, route_density, popped, pushed, result,
          list_vars, pipe_vars, plugin_vars>>

Cores == 0..(scheduler.core_count - 1)
Links == ndirections + scheduler.max_cores_per_tile
TotalLinks == scheduler.noc_height * scheduler.noc_width * Links

\* NocInfo::idx
idx(x, y, link) == (x * scheduler.noc_height * Links) + (y * Links) + link

\* placement of the cores on the mesh
TileOf(core) == core \div scheduler.max_cores_per_tile
OffsetOf(core) == core % scheduler.max_cores_per_tile
TileX(tile) == tile \div scheduler.noc_height
TileY(tile) == tile % scheduler.noc_height

\* abs_diff
abs_diff(a, b) == IF a > b THEN a - b ELSE b - a

(***************************************************************************)
(* Messages                                                                *)
(***************************************************************************)
\* Message(hw, n, timestep): a placeholder of the core
Placeholder(core, gen) ==
    [generation_delay |-> R(gen), network_delay |-> R(0),
     receive_delay |-> R(0),
     sent_timestamp |-> NegInf, received_timestamp |-> NegInf,
     processed_timestamp |-> NegInf,
     hops |-> 0,
     src_x |-> TileX(TileOf(core)), src_y |-> TileY(TileOf(core)),
     dest_x |-> 0, dest_y |-> 0,
     src_core_id |-> core, src_core_offset |-> OffsetOf(core),
     dest_core_id |-> 0, dest_core_offset |-> 0,
     placeholder |-> TRUE, in_noc |-> FALSE]

\* Message(hw, n, timestep, axon_address) after pipeline_receive_message
\* has set network_delay and hops and the receive side its receive_delay;
\* every hop has a latency of one time unit
SpikeMessage(core, dest, gen, recv) ==
    LET sx == TileX(TileOf(core))
        sy == TileY(TileOf(core))
        dx == TileX(TileOf(dest))
        dy == TileY(TileOf(dest))
        h == abs_diff(sx, dx) + abs_diff(sy, dy)
    IN  [generation_delay |-> R(gen), network_delay |-> R(h),
         receive_delay |-> R(recv),
         sent_timestamp |-> NegInf, received_timestamp |-> NegInf,
         processed_timestamp |-> NegInf,
         hops |-> h,
         src_x |-> sx, src_y |-> sy, dest_x |-> dx, dest_y |-> dy,
         src_core_id |-> core, src_core_offset |-> OffsetOf(core),
         dest_core_id |-> dest, dest_core_offset |-> OffsetOf(dest),
         placeholder |-> FALSE, in_noc |-> FALSE]

\* a reference to a message: <<core, position in the core's list>>
Msg(ref) == messages[ref[1]][ref[2]]
AllRefs == { <<c, k>> : c \in Cores, k \in 1..MaxMsgs }
Refs == { r \in AllRefs : r[2] <= Len(messages[r[1]]) }

TotalMessages ==
    LET RECURSIVE Sum(_)
        Sum(c) == IF c < 0 THEN 0 ELSE Len(messages[c]) + Sum(c - 1)
    IN  Sum(scheduler.core_count - 1)

(***************************************************************************)
(* Routes                                                                  *)
(***************************************************************************)
\* the x loop shared by schedule_update_noc_message_counts and
\* schedule_calculate_messages_along_route: the links of the x path
RECURSIVE XLoop(_, _, _)
XLoop(m, x, x_increment) ==
    IF x = m.dest_x THEN <<>>
    ELSE LET direction == IF x_increment > 0 THEN east ELSE west
             link == IF x = m.src_x
                     THEN ndirections + m.src_core_offset
                     ELSE direction
         IN  <<idx(x, m.src_y, link)>> \o XLoop(m, x + x_increment, x_increment)

\* the y loop: the links of the y path, prev_direction being the direction
\* of the previous step
RECURSIVE YLoop(_, _, _, _)
YLoop(m, y, y_increment, prev_direction) ==
    IF y = m.dest_y THEN <<>>
    ELSE LET direction == IF y_increment > 0 THEN north ELSE south
             link == IF (m.src_x = m.dest_x) /\ (y = m.src_y)
                     THEN ndirections + m.src_core_offset
                     ELSE prev_direction
         IN  <<idx(m.dest_x, y, link)>>
                 \o YLoop(m, y + y_increment, y_increment, direction)

\* the link indices schedule_update_noc_message_counts adjusts for m
UpdateRoute(m) ==
    LET x_increment == IF m.src_x < m.dest_x THEN 1 ELSE -1
        y_increment == IF m.src_y < m.dest_y THEN 1 ELSE -1
        after_x == IF m.src_x = m.dest_x
                   THEN ndirections + m.src_core_offset
                   ELSE IF x_increment > 0 THEN east ELSE west
        after_y == IF m.src_y = m.dest_y
                   THEN after_x
                   ELSE IF y_increment > 0 THEN north ELSE south
        last == IF (m.src_x = m.dest_x) /\ (m.src_y = m.dest_y)
                THEN ndirections + m.src_core_offset
                ELSE after_y
    IN  XLoop(m, m.src_x, x_increment)
            \o YLoop(m, m.src_y, y_increment, after_x)
            \o <<idx(m.dest_x, m.dest_y, last)>>

\* the route sum, were its last entry the in-link of the destination core
CalculateRoute_InLink(m) ==
    LET x_increment == IF m.src_x < m.dest_x THEN 1 ELSE -1
        y_increment == IF m.src_y < m.dest_y THEN 1 ELSE -1
        after_x == IF m.src_x = m.dest_x
                   THEN ndirections + m.src_core_offset
                   ELSE IF x_increment > 0 THEN east ELSE west
    IN  XLoop(m, m.src_x, x_increment)
            \o YLoop(m, m.src_y, y_increment, after_x)
            \o <<idx(m.dest_x, m.dest_y, ndirections + m.dest_core_offset)>>

\* the link indices schedule_calculate_messages_along_route sums for m
CalculateRoute(m) ==
    LET x_increment == IF m.src_x < m.dest_x THEN 1 ELSE -1
        y_increment == IF m.src_y < m.dest_y THEN 1 ELSE -1
        after_x == IF m.src_x = m.dest_x
                   THEN ndirections + m.src_core_offset
                   ELSE IF x_increment > 0 THEN east ELSE west
        after_y == IF m.src_y = m.dest_y
                   THEN after_x
                   ELSE IF y_increment > 0 THEN north ELSE south
        last == IF (m.src_x = m.dest_x) /\ (m.src_y = m.dest_y)
                THEN ndirections + m.src_core_offset
                ELSE after_y
    IN  XLoop(m, m.src_x, x_increment)
            \o YLoop(m, m.src_y, y_increment, after_x)
            \o <<idx(m.dest_x, m.dest_y, last)>>

\* message_density[l] += adjust for every l of the route, in order
RECURSIVE AdjustDensity(_, _, _)
AdjustDensity(density, route, adjust) ==
    IF route = <<>> THEN density
    ELSE AdjustDensity(
             [density EXCEPT ![Head(route)] = RAdd(@, adjust)],
             Tail(route), adjust)

\* schedule_calculate_messages_along_route
RECURSIVE SumDensity(_, _)
SumDensity(density, route) ==
    IF route = <<>> THEN R(0)
    ELSE RAdd(density[Head(route)], SumDensity(density, Tail(route)))

schedule_calculate_messages_along_route(m, n) ==
    SumDensity(n.message_density, CalculateRoute(m))

\* the adjustment of one link for a message of the given hops
Adjust(hops) == RDiv(R(1), R(2 + hops))

\* as schedule_update_noc_message_counts, but a leaving message takes
\* 1/(1+hops) from each link, as the C kernel did
schedule_update_noc_message_counts_OldAdjust(m, n, message_in) ==
    LET adjust == IF message_in THEN Adjust(m.hops)
                  ELSE RMul(R(-1), RDiv(R(1), R(1 + m.hops)))
        density == AdjustDensity(n.message_density, UpdateRoute(m), adjust)
        mean == n.mean_in_flight_receive_delay
    IN  IF message_in
        THEN [n EXCEPT
                !.message_density = density,
                !.mean_in_flight_receive_delay =
                    RAdd(mean, RDiv(RSub(m.receive_delay, mean),
                                    R(n.messages_in_noc + 1))),
                !.messages_in_noc = @ + 1]
        ELSE [n EXCEPT
                !.message_density = density,
                !.mean_in_flight_receive_delay =
                    IF n.messages_in_noc > 1
                    THEN RAdd(mean, RDiv(RSub(mean, m.receive_delay),
                                         R(n.messages_in_noc - 1)))
                    ELSE R(0),
                !.messages_in_noc = @ - 1]

\* as schedule_update_noc_message_counts, but the count of messages in the
\* NoC is reset with the mean when the last but one message leaves
schedule_update_noc_message_counts_ResetCount(m, n, message_in) ==
    LET adjust == IF message_in THEN Adjust(m.hops)
                  ELSE RMul(R(-1), Adjust(m.hops))
        density == AdjustDensity(n.message_density, UpdateRoute(m), adjust)
        mean == n.mean_in_flight_receive_delay
    IN  IF message_in
        THEN [n EXCEPT
                !.message_density = density,
                !.mean_in_flight_receive_delay =
                    RAdd(mean, RDiv(RSub(m.receive_delay, mean),
                                    R(n.messages_in_noc + 1))),
                !.messages_in_noc = @ + 1]
        ELSE [n EXCEPT
                !.message_density = density,
                !.mean_in_flight_receive_delay =
                    IF n.messages_in_noc > 1
                    THEN RAdd(mean, RDiv(RSub(mean, m.receive_delay),
                                         R(n.messages_in_noc - 1)))
                    ELSE R(0),
                !.messages_in_noc = IF n.messages_in_noc > 1
                                    THEN n.messages_in_noc - 1
                                    ELSE n.messages_in_noc]

\* as schedule_update_noc_message_counts, but the mean of the messages
\* left is taken over the count before the message leaves
schedule_update_noc_message_counts_StaleDivisor(m, n, message_in) ==
    LET adjust == IF message_in THEN Adjust(m.hops)
                  ELSE RMul(R(-1), Adjust(m.hops))
        density == AdjustDensity(n.message_density, UpdateRoute(m), adjust)
        mean == n.mean_in_flight_receive_delay
    IN  IF message_in
        THEN [n EXCEPT
                !.message_density = density,
                !.mean_in_flight_receive_delay =
                    RAdd(mean, RDiv(RSub(m.receive_delay, mean),
                                    R(n.messages_in_noc + 1))),
                !.messages_in_noc = @ + 1]
        ELSE [n EXCEPT
                !.message_density = density,
                !.mean_in_flight_receive_delay =
                    IF n.messages_in_noc > 1
                    THEN RAdd(mean, RDiv(RSub(mean, m.receive_delay),
                                         R(n.messages_in_noc)))
                    ELSE R(0),
                !.messages_in_noc = @ - 1]

\* schedule_update_noc_message_counts
schedule_update_noc_message_counts(m, n, message_in) ==
    LET adjust == IF message_in THEN Adjust(m.hops)
                  ELSE RMul(R(-1), Adjust(m.hops))
        density == AdjustDensity(n.message_density, UpdateRoute(m), adjust)
        mean == n.mean_in_flight_receive_delay
    IN  IF message_in
        THEN [n EXCEPT
                !.message_density = density,
                !.mean_in_flight_receive_delay =
                    RAdd(mean, RDiv(RSub(m.receive_delay, mean),
                                    R(n.messages_in_noc + 1))),
                !.messages_in_noc = @ + 1]
        ELSE [n EXCEPT
                !.message_density = density,
                !.mean_in_flight_receive_delay =
                    IF n.messages_in_noc > 1
                    THEN RAdd(mean, RDiv(RSub(mean, m.receive_delay),
                                         R(n.messages_in_noc - 1)))
                    ELSE R(0),
                !.messages_in_noc = @ - 1]

(***************************************************************************)
(* schedule_update_noc                                                     *)
(***************************************************************************)
\* the references of messages_received, queue after queue
RECURSIVE ReceivedRefs(_, _)
ReceivedRefs(received, core) ==
    IF core >= scheduler.core_count THEN <<>>
    ELSE received[core] \o ReceivedRefs(received, core + 1)

\* q.erase(curr)
Erase(q, ref) == SelectSeq(q, LAMBDA r : r # ref)

\* as Leaves, but a message received exactly at t stays
Leaves_Strict(m, t) == m.in_noc /\ RLt(m.received_timestamp, t)

\* whether schedule_update_noc takes the message out of the NoC at time t
Leaves(m, t) == m.in_noc /\ RLe(m.received_timestamp, t)

\* the loop of schedule_update_noc over the references still to visit;
\* st is the pair of records [msgs, noc]
RECURSIVE UpdateNocLoop(_, _, _)
UpdateNocLoop(t, st, todo) ==
    IF todo = <<>> THEN st
    ELSE LET ref == Head(todo)
             m == st.msgs[ref[1]][ref[2]]
         IN  IF Leaves(m, t)
             THEN LET left == [m EXCEPT !.in_noc = FALSE]
                      n1 == schedule_update_noc_message_counts(
                                left, st.noc, FALSE)
                      n2 == [n1 EXCEPT !.messages_received[m.dest_core_id]
                                           = Erase(@, ref)]
                  IN  UpdateNocLoop(t,
                          [msgs |-> [st.msgs EXCEPT ![ref[1]][ref[2]] = left],
                           noc |-> n2],
                          Tail(todo))
             ELSE UpdateNocLoop(t, st, Tail(todo))

schedule_update_noc(t, msgs, n) ==
    UpdateNocLoop(t, [msgs |-> msgs, noc |-> n],
                  ReceivedRefs(n.messages_received, 0))

(***************************************************************************)
(* The priority queue                                                      *)
(***************************************************************************)
\* the positions of the queue whose message has the least sent_timestamp:
\* priority.top() is one of them
MinEntries(queue, msgs) ==
    { i \in 1..Len(queue) :
        \A j \in 1..Len(queue) :
            RLe(msgs[queue[i][1]][queue[i][2]].sent_timestamp,
                msgs[queue[j][1]][queue[j][2]].sent_timestamp) }

RemoveAt(q, i) == SubSeq(q, 1, i - 1) \o SubSeq(q, i + 1, Len(q))

(***************************************************************************)
(* schedule_messages, step by step, on the record                          *)
(*   [msgs, fifo, queue, noc, last]                                        *)
(* of the messages, messages_sent_per_core, priority, noc, last_timestamp  *)
(***************************************************************************)
EmptyNoc ==
    [message_density |-> [l \in 0..(TotalLinks - 1) |-> R(0)],
     messages_received |-> [c \in Cores |-> <<>>],
     core_finished_receiving |-> [c \in Cores |-> R(0)],
     mean_in_flight_receive_delay |-> R(0),
     messages_in_noc |-> 0]

\* as InitTimingPriority, but every message of a core is pushed at once
RECURSIVE InitTimingPriority_All(_, _)
InitTimingPriority_All(st, core) ==
    IF core >= scheduler.core_count THEN st
    ELSE IF st.fifo[core] # <<>>
         THEN LET ref == Head(st.fifo[core])
                  m == st.msgs[ref[1]][ref[2]]
              IN  InitTimingPriority_All(
                      [st EXCEPT
                          !.msgs[ref[1]][ref[2]].sent_timestamp =
                              m.generation_delay,
                          !.fifo[core] = Tail(@),
                          !.queue = Append(@, ref)],
                      core)
         ELSE InitTimingPriority_All(st, core + 1)

\* schedule_init_timing_priority, visited core after core
RECURSIVE InitTimingPriority(_, _)
InitTimingPriority(st, core) ==
    IF core >= scheduler.core_count THEN st
    ELSE IF st.fifo[core] # <<>>
         THEN LET ref == Head(st.fifo[core])
                  m == st.msgs[ref[1]][ref[2]]
              IN  InitTimingPriority(
                      [st EXCEPT
                          !.msgs[ref[1]][ref[2]].sent_timestamp =
                              m.generation_delay,
                          !.fifo[core] = Tail(@),
                          !.queue = Append(@, ref)],
                      core + 1)
         ELSE InitTimingPriority(st, core + 1)

\* schedule_messages up to its main loop
StartStep(msgs) ==
    InitTimingPriority(
        [msgs |-> msgs,
         fifo |-> [c \in Cores |-> [k \in 1..Len(msgs[c]) |-> <<c, k>>]],
         queue |-> <<>>,
         noc |-> EmptyNoc,
         last |-> R(0)],
        0)

\* as PopStep, but without the call of schedule_update_noc
PopStep_NoUpdate(st, i) ==
    LET ref == st.queue[i]
        t == st.msgs[ref[1]][ref[2]].sent_timestamp
    IN  [st EXCEPT !.queue = RemoveAt(@, i),
                   !.last = FMax(@, t)]

\* the head of an iteration, popping position i of the queue
PopStep(st, i) ==
    LET ref == st.queue[i]
        t == st.msgs[ref[1]][ref[2]].sent_timestamp
        upd == schedule_update_noc(t, st.msgs, st.noc)
    IN  [st EXCEPT !.queue = RemoveAt(@, i),
                   !.last = FMax(@, t),
                   !.msgs = upd.msgs,
                   !.noc = upd.noc]

\* as PathCapacity, but without the source link
PathCapacity_Hops(m) == m.hops * scheduler.buffer_size

\* path_capacity
PathCapacity(m) == (m.hops + 1) * scheduler.buffer_size

\* the delay put on sent_timestamp without the congestion test
BackPressure_NoTest(sent, along_route, capacity, mean) ==
    RAdd(sent, RMul(RSub(along_route, R(capacity)), mean))

\* the congestion test and the delay it puts on sent_timestamp
BackPressure(sent, along_route, capacity, mean) ==
    IF RLt(R(capacity), along_route)
    THEN RAdd(sent, RMul(RSub(along_route, R(capacity)), mean))
    ELSE sent

\* as EarliestReceived, but from the send time before back-pressure
EarliestReceived_Stale(m, sent, along_route, mean) ==
    LET network_delay == RDiv(RMul(along_route, mean), R(m.hops + 1))
    IN  RAdd(m.sent_timestamp, FMax(m.network_delay, network_delay))

\* earliest_received_time
EarliestReceived(m, sent, along_route, mean) ==
    LET network_delay == RDiv(RMul(along_route, mean), R(m.hops + 1))
    IN  RAdd(sent, FMax(m.network_delay, network_delay))

\* the new core_finished_receiving[dest_core] without its second operand
FinishedReceiving_Queued(finished, earliest, receive_delay) ==
    RAdd(finished, receive_delay)

\* the new core_finished_receiving[dest_core] without its first operand
FinishedReceiving_Earliest(finished, earliest, receive_delay) ==
    RAdd(earliest, receive_delay)

\* the new core_finished_receiving[dest_core]
FinishedReceiving(finished, earliest, receive_delay) ==
    FMax(RAdd(finished, receive_delay), RAdd(earliest, receive_delay))

\* the body of "if (!m.placeholder)" for the message ref
SendStep(st, ref) ==
    LET m == st.msgs[ref[1]][ref[2]]
        dest_core == m.dest_core_id
        messages_along_route ==
            schedule_calculate_messages_along_route(m, st.noc)
        sent == BackPressure(m.sent_timestamp, messages_along_route,
                             PathCapacity(m),
                             st.noc.mean_in_flight_receive_delay)
        n1 == [st.noc EXCEPT !.messages_received[dest_core] = Append(@, ref)]
        n2 == schedule_update_noc_message_counts(m, n1, TRUE)
        earliest == EarliestReceived(m, sent, messages_along_route,
                                     n2.mean_in_flight_receive_delay)
        finished == st.noc.core_finished_receiving[dest_core]
        received == FMax(finished, earliest)
        processed == FinishedReceiving(finished, earliest, m.receive_delay)
    IN  [st EXCEPT
            !.msgs[ref[1]][ref[2]] =
                [m EXCEPT !.sent_timestamp = sent,
                          !.in_noc = TRUE,
                          !.received_timestamp = received,
                          !.processed_timestamp = processed],
            !.noc = [n2 EXCEPT !.core_finished_receiving[dest_core] =
                                   processed],
            !.last = FMax(@, processed)]

\* as NextStep, but from the time the popped message entered the queue,
\* without the back-pressure delay applied to it
NextStep_EntryTime(st, ref) ==
    LET m == st.msgs[ref[1]][ref[2]]
        src_core == m.src_core_id
        q == st.fifo[src_core]
        entered == RAdd(IF ref[2] = 1 THEN R(0)
                        ELSE st.msgs[ref[1]][ref[2] - 1].sent_timestamp,
                        m.generation_delay)
    IN  IF q # <<>>
        THEN LET next == Head(q)
                 sent == RAdd(entered,
                              st.msgs[next[1]][next[2]].generation_delay)
             IN  [st EXCEPT
                     !.msgs[next[1]][next[2]].sent_timestamp = sent,
                     !.last = FMax(@, sent),
                     !.queue = Append(@, next),
                     !.fifo[src_core] = Tail(@)]
        ELSE st

\* as NextStep, but without q.pop_front()
NextStep_NoPopFront(st, ref) ==
    LET m == st.msgs[ref[1]][ref[2]]
        src_core == m.src_core_id
        q == st.fifo[src_core]
    IN  IF q # <<>>
        THEN LET next == Head(q)
                 sent == RAdd(m.sent_timestamp,
                              st.msgs[next[1]][next[2]].generation_delay)
             IN  [st EXCEPT
                     !.msgs[next[1]][next[2]].sent_timestamp = sent,
                     !.last = FMax(@, sent),
                     !.queue = Append(@, next)]
        ELSE st

\* "Get the next message for this core" with the next message sent at its
\* generation_delay, whenever the message popped was sent
NextStep_FromGeneration(st, ref) ==
    LET m == st.msgs[ref[1]][ref[2]]
        src_core == m.src_core_id
        q == st.fifo[src_core]
    IN  IF q # <<>>
        THEN LET next == Head(q)
                 sent == st.msgs[next[1]][next[2]].generation_delay
             IN  [st EXCEPT
                     !.msgs[next[1]][next[2]].sent_timestamp = sent,
                     !.last = FMax(@, sent),
                     !.queue = Append(@, next),
                     !.fifo[src_core] = Tail(@)]
        ELSE st

\* "Get the next message for this core", ref being the message popped
NextStep(st, ref) ==
    LET m == st.msgs[ref[1]][ref[2]]
        src_core == m.src_core_id
        q == st.fifo[src_core]
    IN  IF q # <<>>
        THEN LET next == Head(q)
                 sent == RAdd(m.sent_timestamp,
                              st.msgs[next[1]][next[2]].generation_delay)
             IN  [st EXCEPT
                     !.msgs[next[1]][next[2]].sent_timestamp = sent,
                     !.last = FMax(@, sent),
                     !.queue = Append(@, next),
                     !.fifo[src_core] = Tail(@)]
        ELSE st

(***************************************************************************)
(* The state machine                                                       *)
(***************************************************************************)
NoRef == <<-1, 0>>

\* the record of the scheduler's variables
Cur ==
    [msgs |-> messages, fifo |-> messages_sent_per_core, queue |-> priority,
     noc |-> noc, last |-> last_timestamp]

\* the C kernel before sim_schedule_messages is called on empty queues
ListIdle ==
    /\ message_queues = [c \in ListCores |-> <<>>]
    /\ priority_queue = <<>>
    /\ list_pc = "init"
    /\ q_cur = -1
    /\ m_sent = 0
    /\ inserted_at = [c \in ListCores |-> 0]
    /\ insertions = 0

\* no plugin asked for yet
NoRequest ==
    [unit |-> "none", model_name |-> "none", loaded |-> FALSE,
     thrown |-> "none", factory |-> "none", created |-> "none"]

PluginIdle ==
    /\ plugin_create_synapse = <<>>
    /\ plugin_create_dendrite = <<>>
    /\ plugin_create_soma = <<>>
    /\ plugin_result = NoRequest

\* the pipeline before a chip is loaded
PipeIdle ==
    /\ arch = [buffer_pos |-> <<>>]
    /\ neurons = <<>>
    /\ next_message_generation_delay = <<>>
    /\ ts_messages = <<>>
    /\ messages_in = <<>>
    /\ pipe_pc = "idle"
    /\ pipe_at = <<0, 0>>
    /\ units = <<>>
    /\ tiles = <<>>

InitScheduler ==
    /\ scheduler \in SchedulerConfigs
    /\ messages = [c \in 0..(scheduler.core_count - 1) |-> <<>>]
    /\ pc = "pipeline"
    /\ messages_sent_per_core = [c \in 0..(scheduler.core_count - 1) |-> <<>>]
    /\ priority = <<>>
    /\ noc = [message_density |-> <<>>, messages_received |-> <<>>,
              core_finished_receiving |-> <<>>,
              mean_in_flight_receive_delay |-> R(0), messages_in_noc |-> 0]
    /\ last_timestamp = R(0)
    /\ m_cur = NoRef
    /\ t_pop = NegInf
    /\ route_density = R(0)
    /\ popped = <<>>
    /\ pushed = <<>>
    /\ result = NegInf

Init == InitScheduler /\ ListIdle /\ PipeIdle /\ PluginIdle

\* whether the core's queue is closed by its placeholder
Closed(core) ==
    /\ messages[core] # <<>>
    /\ messages[core][Len(messages[core])].placeholder

\* pipeline_process_axon_out: a spike message is appended to the queue of
\* its source core (its delays as the two pipeline phases leave them)
EmitSpike ==
    /\ pc = "pipeline"
    /\ TotalMessages < MaxMsgs
    /\ \E core \in SourceCores, dest \in Cores,
          gen \in Delays, recv \in Delays :
          /\ ~Closed(core)
          /\ messages' = [messages EXCEPT ![core] =
                             Append(@, SpikeMessage(core, dest, gen, recv))]
    /\ UNCHANGED <<list_vars, pipe_vars, plugin_vars,
                   scheduler, pc, messages_sent_per_core, priority, noc,
                   last_timestamp, m_cur, t_pop, route_density, popped,
                   pushed, result>>

\* pipeline_process_neurons: the placeholder closing a core's queue, with
\* the non-zero delay left in next_message_generation_delay
EmitPlaceholder ==
    /\ pc = "pipeline"
    /\ TotalMessages < MaxMsgs
    /\ \E core \in SourceCores, gen \in Delays \ {0} :
          /\ ~Closed(core)
          /\ messages' = [messages EXCEPT ![core] =
                             Append(@, Placeholder(core, gen))]
    /\ UNCHANGED <<list_vars, pipe_vars, plugin_vars,
                   scheduler, pc, messages_sent_per_core, priority, noc,
                   last_timestamp, m_cur, t_pop, route_density, popped,
                   pushed, result>>

\* schedule_messages up to its main loop
Start ==
    /\ pc = "pipeline"
    /\ LET st == StartStep(messages)
       IN  /\ messages' = st.msgs
           /\ messages_sent_per_core' = st.fifo
           /\ priority' = st.queue
           /\ pushed' = st.queue
           /\ noc' = st.noc
           /\ last_timestamp' = st.last
    /\ pc' = "pop"
    /\ UNCHANGED <<list_vars, pipe_vars, plugin_vars,
                   scheduler, m_cur, t_pop, route_density, popped, result>>

\* as Pop, but without the test of m.placeholder: every message is sent
Pop_SendAll ==
    /\ pc = "pop"
    /\ priority # <<>>
    /\ \E i \in MinEntries(priority, messages) :
          LET ref == priority[i]
              st == PopStep(Cur, i)
          IN  /\ m_cur' = ref
              /\ t_pop' = Msg(ref).sent_timestamp
              /\ popped' = Append(popped, ref)
              /\ priority' = st.queue
              /\ last_timestamp' = st.last
              /\ messages' = st.msgs
              /\ noc' = st.noc
              /\ pc' = "send"
    /\ UNCHANGED <<list_vars, pipe_vars, plugin_vars,
                   scheduler, messages_sent_per_core, route_density, pushed,
                   result>>

\* the head of a loop iteration: pop, last_timestamp, schedule_update_noc
Pop ==
    /\ pc = "pop"
    /\ priority # <<>>
    /\ \E i \in MinEntries(priority, messages) :
          LET ref == priority[i]
              st == PopStep(Cur, i)
          IN  /\ m_cur' = ref
              /\ t_pop' = Msg(ref).sent_timestamp
              /\ popped' = Append(popped, ref)
              /\ priority' = st.queue
              /\ last_timestamp' = st.last
              /\ messages' = st.msgs
              /\ noc' = st.noc
              /\ pc' = IF Msg(ref).placeholder THEN "next" ELSE "send"
    /\ UNCHANGED <<list_vars, pipe_vars, plugin_vars,
                   scheduler, messages_sent_per_core, route_density, pushed,
                   result>>

\* the body of "if (!m.placeholder)"
Send ==
    /\ pc = "send"
    /\ LET st == SendStep(Cur, m_cur)
       IN  /\ messages' = st.msgs
           /\ noc' = st.noc
           /\ last_timestamp' = st.last
    /\ route_density' =
           schedule_calculate_messages_along_route(Msg(m_cur), noc)
    /\ pc' = "next"
    /\ UNCHANGED <<list_vars, pipe_vars, plugin_vars,
                   scheduler, messages_sent_per_core, priority, m_cur, t_pop,
                   popped, pushed, result>>

\* "Get the next message for this core"
NextMessage ==
    /\ pc = "next"
    /\ LET st == NextStep(Cur, m_cur)
       IN  /\ messages' = st.msgs
           /\ last_timestamp' = st.last
           /\ priority' = st.queue
           /\ messages_sent_per_core' = st.fifo
           /\ pushed' = pushed \o SubSeq(st.queue, Len(priority) + 1,
                                         Len(st.queue))
    /\ pc' = "pop"
    /\ UNCHANGED <<list_vars, pipe_vars, plugin_vars,
                   scheduler, noc, m_cur, t_pop, route_density, popped,
                   result>>

\* as Return, but the time of the last popped message is returned
Return_LastPopped ==
    /\ pc = "pop"
    /\ priority = <<>>
    /\ result' = t_pop
    /\ pc' = "done"
    /\ UNCHANGED <<list_vars, pipe_vars, plugin_vars,
                   scheduler, messages, messages_sent_per_core, priority,
                   noc, last_timestamp, m_cur, t_pop, route_density, popped,
                   pushed>>

\* the loop ends on an empty queue: return last_timestamp
Return ==
    /\ pc = "pop"
    /\ priority = <<>>
    /\ result' = last_timestamp
    /\ pc' = "done"
    /\ UNCHANGED <<list_vars, pipe_vars, plugin_vars,
                   scheduler, messages, messages_sent_per_core, priority,
                   noc, last_timestamp, m_cur, t_pop, route_density, popped,
                   pushed>>

Next ==
    \/ EmitSpike
    \/ EmitPlaceholder
    \/ Start
    \/ Pop
    \/ Send
    \/ NextMessage
    \/ Return

Spec == Init /\ [][Next]_vars

\* schedule_messages is a sequential function: once the pipeline phases
\* have filled the queues it is called, and it then takes its steps one
\* after the other until it returns.  Every step of it moves pc, and no
\* other step does
Advance ==
    /\ pc # "done"
    /\ pc' \in {"pop", "send", "next", "done"} \ {pc}

FairSpec == Spec /\ WF_pc(Advance)

(***************************************************************************)
(* The list-based priority queue of the C kernel (sim.c)                   *)
(*                                                                         *)
(* The timestamps of this part are integers.  The congestion test of       *)
(* sim_schedule_messages needs more than MAX_MESSAGES_PER_HOP = 16         *)
(* messages along a route, so with the queues drawn here it never delays   *)
(* a message, and the sent_timestamp of a message is the sum of the        *)
(* generation delays up to it.                                             *)
(***************************************************************************)
\* a message of the C kernel as the pipeline leaves it; its sent_timestamp
\* is not read before it is assigned
ListMessage(gen) == [generation_delay |-> gen, sent_timestamp |-> 0]

\* the queues a core may hand to sim_schedule_messages
RECURSIVE QueuesUpTo(_)
QueuesUpTo(n) ==
    IF n = 0 THEN { <<>> }
    ELSE LET shorter == QueuesUpTo(n - 1)
         IN  shorter \cup
                 { Append(q, ListMessage(gen)) :
                       q \in { x \in shorter : Len(x) = n - 1 },
                       gen \in ListDelays }

\* core_message_fifo->tail->sent_timestamp
TailSent(queues, core) == queues[core][1].sent_timestamp

\* the loop of sim_insert_priority_queue without its break: the queue is
\* linked behind the last queue of the list
InsertWalk_NoBreak(list, queues, core, curr) == list \o <<core>>

\* the while loop of sim_insert_priority_queue: the queue is linked behind
\* position curr unless the walk goes on
RECURSIVE InsertWalk(_, _, _, _)
InsertWalk(list, queues, core, curr) ==
    IF curr < Len(list)
       /\ ~(TailSent(queues, core) < TailSent(queues, list[curr + 1]))
    THEN InsertWalk(list, queues, core, curr + 1)
    ELSE SubSeq(list, 1, curr) \o <<core>> \o SubSeq(list, curr + 1, Len(list))

\* sim_insert_priority_queue
sim_insert_priority_queue(list, queues, core) ==
    IF list = <<>> \/ TailSent(queues, core) <= TailSent(queues, list[1])
    THEN <<core>> \o list
    ELSE InsertWalk(list, queues, core, 1)

\* sim_pop_priority_queue: the queue popped and the list left
sim_pop_priority_queue(list) == [q |-> Head(list), list |-> Tail(list)]

\* sim_message_fifo_pop of a queue that is not empty
sim_message_fifo_pop(queue) == [m |-> Head(queue), queue |-> Tail(queue)]

\* a call of sim_insert_priority_queue on the record [queues, list, at, n]
\* of message_queues, priority_queue, inserted_at, insertions
InsertQueue(st, core) ==
    [st EXCEPT !.list = sim_insert_priority_queue(st.list, st.queues, core),
               !.at[core] = st.n + 1,
               !.n = st.n + 1]

\* sim_init_timing_priority, core after core
RECURSIVE sim_init_timing_priority(_, _)
sim_init_timing_priority(st, i) ==
    IF i \notin ListCores THEN st
    ELSE IF Len(st.queues[i]) > 0
         THEN LET m == st.queues[i][1]
                  set == [st EXCEPT !.queues[i][1].sent_timestamp =
                                        m.generation_delay]
              IN  sim_init_timing_priority(InsertQueue(set, i), i + 1)
         ELSE sim_init_timing_priority(st, i + 1)

ListCur ==
    [queues |-> message_queues, list |-> priority_queue,
     at |-> inserted_at, n |-> insertions]

\* the scheduler of schedule.cpp at rest
SchedulerIdle ==
    UNCHANGED <<scheduler, messages, pc, messages_sent_per_core, priority,
                noc, last_timestamp, m_cur, t_pop, route_density, popped,
                pushed, result, pipe_vars, plugin_vars>>

InitList ==
    /\ InitScheduler
    /\ scheduler.buffer_size = 0
    /\ message_queues \in [ListCores -> QueuesUpTo(MaxMsgs)]
    /\ priority_queue = <<>>
    /\ list_pc = "init"
    /\ q_cur = -1
    /\ m_sent = 0
    /\ inserted_at = [c \in ListCores |-> 0]
    /\ insertions = 0
    /\ PipeIdle
    /\ PluginIdle

\* sim_schedule_messages up to its loop
ListStart ==
    /\ list_pc = "init"
    /\ LET st == sim_init_timing_priority(
                     [ListCur EXCEPT !.list = <<>>], 0)
       IN  /\ message_queues' = st.queues
           /\ priority_queue' = st.list
           /\ inserted_at' = st.at
           /\ insertions' = st.n
    /\ list_pc' = "pop"
    /\ UNCHANGED <<q_cur, m_sent>>
    /\ SchedulerIdle

\* the head of an iteration: the first queue of the list is popped, and its
\* tail message taken from it
ListPop ==
    /\ list_pc = "pop"
    /\ priority_queue # <<>>
    /\ LET top == sim_pop_priority_queue(priority_queue)
           got == sim_message_fifo_pop(message_queues[top.q])
       IN  /\ q_cur' = top.q
           /\ priority_queue' = top.list
           /\ m_sent' = got.m.sent_timestamp
           /\ message_queues' = [message_queues EXCEPT ![top.q] = got.queue]
    /\ list_pc' = "next"
    /\ UNCHANGED <<inserted_at, insertions>>
    /\ SchedulerIdle

\* "Get the next message for this core": the queue is put back into the
\* list unless it is empty
ListNext ==
    /\ list_pc = "next"
    /\ IF message_queues[q_cur] # <<>>
       THEN LET next_message == message_queues[q_cur][1]
                set == [ListCur EXCEPT
                           !.queues[q_cur][1].sent_timestamp =
                               m_sent + next_message.generation_delay]
                st == InsertQueue(set, q_cur)
            IN  /\ message_queues' = st.queues
                /\ priority_queue' = st.list
                /\ inserted_at' = st.at
                /\ insertions' = st.n
       ELSE UNCHANGED <<message_queues, priority_queue, inserted_at,
                        insertions>>
    /\ list_pc' = "pop"
    /\ UNCHANGED <<q_cur, m_sent>>
    /\ SchedulerIdle

\* the loop ends on an empty list
ListReturn ==
    /\ list_pc = "pop"
    /\ priority_queue = <<>>
    /\ list_pc' = "done"
    /\ UNCHANGED <<message_queues, priority_queue, q_cur, m_sent,
                   inserted_at, insertions>>
    /\ SchedulerIdle

NextList ==
    \/ ListStart
    \/ ListPop
    \/ ListNext
    \/ ListReturn

SpecList == InitList /\ [][NextList]_vars

(***************************************************************************)
(* The NoC bookkeeping on its own: messages enter the NoC as in the body   *)
(* of "if (!m.placeholder)", from any core to any core, and                *)
(* schedule_update_noc is called with any time                             *)
(***************************************************************************)
\* the cores that send: opposite corners of the mesh, so that routes run
\* in all four directions
NocSources == {0, 3}

\* the times at which messages are received and the NoC is updated
Times == 1..2

InitNoc ==
    /\ scheduler \in SchedulerConfigs
    /\ scheduler.buffer_size = 0
    /\ messages = [c \in Cores |-> <<>>]
    /\ pc = "noc"
    /\ messages_sent_per_core = [c \in Cores |-> <<>>]
    /\ priority = <<>>
    /\ noc = EmptyNoc
    /\ last_timestamp = R(0)
    /\ m_cur = NoRef
    /\ t_pop = NegInf
    /\ route_density = R(0)
    /\ popped = <<>>
    /\ pushed = <<>>
    /\ result = NegInf
    /\ ListIdle
    /\ PluginIdle
    /\ PipeIdle

\* m.in_noc = true; noc.messages_received[dest_core].push_back(m);
\* schedule_update_noc_message_counts(m, noc, true), for a message that
\* will be received at the time received
NocEnter ==
    /\ pc = "noc"
    /\ TotalMessages < MaxMsgs
    /\ \E core \in NocSources, dest \in Cores, recv \in Delays,
          received \in Times :
          LET m == [SpikeMessage(core, dest, 0, recv) EXCEPT
                          !.sent_timestamp = R(0),
                          !.received_timestamp = R(received),
                          !.processed_timestamp = R(received + recv),
                          !.in_noc = TRUE]
              ref == <<core, Len(messages[core]) + 1>>
              n1 == [noc EXCEPT !.messages_received[dest] = Append(@, ref)]
          IN  /\ messages' = [messages EXCEPT ![core] = Append(@, m)]
              /\ noc' = schedule_update_noc_message_counts(m, n1, TRUE)
    /\ UNCHANGED <<list_vars, pipe_vars, plugin_vars,
                   scheduler, pc, messages_sent_per_core, priority,
                   last_timestamp, m_cur, t_pop, route_density, popped,
                   pushed, result>>

\* schedule_update_noc(t, noc)
NocUpdate ==
    /\ pc = "noc"
    /\ \E t \in Times :
          LET upd == schedule_update_noc(R(t), messages, noc)
          IN  /\ messages' = upd.msgs
              /\ noc' = upd.noc
              /\ t_pop' = R(t)
    /\ UNCHANGED <<list_vars, pipe_vars, plugin_vars,
                   scheduler, pc, messages_sent_per_core, priority,
                   last_timestamp, m_cur, route_density, popped, pushed,
                   result>>

NextNoc ==
    \/ NocEnter
    \/ NocUpdate

SpecNoc == InitNoc /\ [][NextNoc]_vars

(***************************************************************************)
(* The pipeline (pipeline.cpp): one timestep is the process-neurons phase  *)
(* and then the process-messages phase, over the cores that have neurons.  *)
(* Latencies are whole numbers of time units.                              *)
(***************************************************************************)
PipeCoreIds == { PipeCores[k] : k \in 1..Len(PipeCores) }
\* the timesteps of a run; pipe_at.timesteps is the range of the run at hand
Timesteps == 1..2

\* enum NeuronStatus
IDLE == "IDLE"
UPDATED == "UPDATED"
FIRED == "FIRED"
Statuses == {IDLE, UPDATED, FIRED}

\* the latencies of the hardware units of every core and of the hops of
\* every tile: all zero, or all different
Hardware(a) ==
    [soma |-> [latency_access_neuron |-> a, latency_update_neuron |-> 2 * a,
               latency_spiking |-> 4 * a],
     axon_out |-> [latency_access |-> 8 * a],
     axon_in |-> [latency_spike_message |-> 16 * a],
     synapse |-> [latency_spike_op |-> 32 * a],
     tile |-> [latency_east_hop |-> 64 * a, latency_west_hop |-> 128 * a,
               latency_north_hop |-> 256 * a, latency_south_hop |-> 512 * a]]

BufferPositions ==
    {BUFFER_BEFORE_DENDRITE_UNIT, BUFFER_BEFORE_SOMA_UNIT,
     BUFFER_BEFORE_AXON_OUT_UNIT}

\* every core has its own pipeline_config.timestep_buffer_pos; the
\* position of core 3, which has no neurons, is of no effect
Architectures ==
    { [buffer_pos |-> pos, hw |-> Hardware(a)] :
        pos \in { f \in [PipeCoreIds -> BufferPositions] :
                    f[3] = BUFFER_BEFORE_DENDRITE_UNIT },
        a \in Delays }

\* a mapped neuron whose axons out lead to the cores of axon_out_addresses
MappedNeuron(axon_out_addresses) ==
    [axon_out_addresses |-> axon_out_addresses,
     axon_out_input_spike |-> FALSE,
     soma_last_updated |-> 0,
     dendrite_last_updated |-> 0,
     dendrite_input_synapses |-> <<>>,
     dendrite_model |-> <<>>,
     dendrite_inputs |-> <<>>,
     soma_model |-> 0,
     soma_spike_count |-> 0,
     spikes_pending |-> 0,
     forced_spikes |-> 0,
     spike_count |-> 0,
     status |-> IDLE]

\* the networks mapped: one or two neurons on core 0, none or one on core
\* 2, none on core 3
AxonLists == {<<>>, <<2>>, <<0, 3>>}
NeuronMaps ==
    { [c \in PipeCoreIds |-> IF c = 0 THEN on0
                             ELSE IF c = 2 THEN on2 ELSE <<>>] :
        on0 \in { <<MappedNeuron(a)>> : a \in AxonLists }
                \cup { <<MappedNeuron(a), MappedNeuron(b)>> :
                         a \in AxonLists, b \in {<<>>, <<2>>} },
        on2 \in { <<>>, <<MappedNeuron(<<0>>)>> } }

\* the synapses of the axon a message comes in at: one to every neuron of
\* the receiving core
SynapseAddresses(ns, c) == [j \in 1..Len(ns[c]) |-> j]

NoCalls ==
    [send |-> [synapse |-> 0, dendrite |-> 0, soma |-> 0, axon_out |-> 0],
     receive |-> [axon_in |-> 0, synapse |-> 0, dendrite |-> 0, soma |-> 0,
                  axon_out |-> 0],
     latency |-> 0, accesses |-> 0, fired |-> FALSE, flagged |-> FALSE]

Called(p, c, side, unit) == [p EXCEPT !.units[c][side][unit] = @ + 1]

\* Message(arch, n, timestep, axon_address): network_delay and hops are
\* set when the message is received
AxonMessage(core, dest) ==
    [SpikeMessage(core, dest, 0, 0) EXCEPT !.network_delay = R(0),
                                            !.hops = 0]

\* the first loop of pipeline_process_dendrite with the dendrite model
\* updated once however many timesteps were missed
RECURSIVE DendriteLoop_Once(_, _)
DendriteLoop_Once(n, timestep) ==
    IF n.dendrite_last_updated >= timestep THEN n
    ELSE [n EXCEPT !.dendrite_model = Append(@, FALSE),
                   !.dendrite_last_updated = timestep]

\* the first loop of pipeline_process_dendrite: n.dendrite_model->update()
\* once for every timestep up to ts.timestep.  dendrite_model is the list
\* of the updates of the dendrite model in the latest run of the unit:
\* FALSE for an update with no synapse, TRUE for the update with a synapse
RECURSIVE DendriteLoop(_, _)
DendriteLoop(n, timestep) ==
    IF n.dendrite_last_updated >= timestep THEN n
    ELSE DendriteLoop([n EXCEPT !.dendrite_model = Append(@, FALSE),
                                !.dendrite_last_updated = @ + 1],
                      timestep)

\* pipeline_process_dendrite with the buffer of synapses left as it is
pipeline_process_dendrite_KeepBuffer(p, c, i, side) ==
    LET n == [p.neurons[c][i] EXCEPT !.dendrite_model = <<>>,
                                     !.dendrite_inputs = <<>>]
        stepped == DendriteLoop(n, p.timestep)
        integrated ==
            [stepped EXCEPT
                !.dendrite_model =
                    @ \o [k \in 1..Len(n.dendrite_input_synapses) |-> TRUE],
                !.dendrite_inputs = n.dendrite_input_synapses]
    IN  [p |-> [Called(p, c, side, "dendrite") EXCEPT
                   !.neurons[c][i] = integrated],
         latency |-> 0]

\* pipeline_process_dendrite; dendrite_inputs is the list of the synapses
\* passed to the dendrite model in the latest run of the unit, in the order
\* they were passed
pipeline_process_dendrite(p, c, i, side) ==
    LET n == [p.neurons[c][i] EXCEPT !.dendrite_model = <<>>,
                                     !.dendrite_inputs = <<>>]
        stepped == DendriteLoop(n, p.timestep)
        integrated ==
            [stepped EXCEPT
                !.dendrite_model =
                    @ \o [k \in 1..Len(n.dendrite_input_synapses) |-> TRUE],
                !.dendrite_inputs = n.dendrite_input_synapses,
                !.dendrite_input_synapses = <<>>]
    IN  [p |-> [Called(p, c, side, "dendrite") EXCEPT
                   !.neurons[c][i] = integrated],
         latency |-> 0]

\* the soma loop with one update of the soma model for all the timesteps
\* missed
SomaLoop_Once(n, timestep, status, k) ==
    IF n.soma_last_updated >= timestep
    THEN [n |-> n, latency |-> 0, fired |-> FALSE]
    ELSE LET s == IF n.forced_spikes > 0 THEN FIRED ELSE status[k]
             hw == arch.hw.soma
             l == hw.latency_access_neuron
                  + (IF s \in {UPDATED, FIRED}
                     THEN hw.latency_update_neuron ELSE 0)
                  + (IF s = FIRED THEN hw.latency_spiking ELSE 0)
         IN  [n |-> [n EXCEPT !.status = s,
                              !.forced_spikes = IF @ > 0 THEN @ - 1 ELSE @,
                              !.axon_out_input_spike = @ \/ s = FIRED,
                              !.spikes_pending =
                                  IF s = FIRED THEN @ + 1 ELSE @,
                              !.soma_model = @ + 1,
                              !.soma_spike_count = n.spike_count,
                              !.soma_last_updated = timestep],
              latency |-> l, fired |-> s = FIRED]

\* the loop of pipeline_process_soma; status[k] is what the k-th update of
\* the soma model returns, soma_model the number of its updates so far,
\* soma_spike_count the spike_count its latest update was made with,
\* spikes_pending the number of times the neuron fired (neurons_fired++)
\* less the number of times the axon-out unit sent its spike messages
RECURSIVE SomaLoop(_, _, _, _)
SomaLoop(n, timestep, status, k) ==
    IF n.soma_last_updated >= timestep
    THEN [n |-> n, latency |-> 0, fired |-> FALSE]
    ELSE LET s == IF n.forced_spikes > 0 THEN FIRED ELSE status[k]
             hw == arch.hw.soma
             l == hw.latency_access_neuron
                  + (IF s \in {UPDATED, FIRED}
                     THEN hw.latency_update_neuron ELSE 0)
                  + (IF s = FIRED THEN hw.latency_spiking ELSE 0)
             n1 == [n EXCEPT !.status = s,
                             !.forced_spikes =
                                 IF @ > 0 THEN @ - 1 ELSE @,
                             !.axon_out_input_spike = @ \/ s = FIRED,
                             !.spikes_pending =
                                 IF s = FIRED THEN @ + 1 ELSE @,
                             !.soma_model = @ + 1,
                             !.soma_spike_count = n.spike_count,
                             !.soma_last_updated = @ + 1]
             rest == SomaLoop(n1, timestep, status, k + 1)
         IN  [n |-> rest.n, latency |-> l + rest.latency,
              fired |-> s = FIRED \/ rest.fired]

\* pipeline_process_soma
pipeline_process_soma(p, c, i, side, status) ==
    LET upd == SomaLoop(p.neurons[c][i], p.timestep, status, 1)
        p1 == Called(p, c, side, "soma")
    IN  [p |-> [p1 EXCEPT !.neurons[c][i] = upd.n,
                          !.units[c].fired = @ \/ upd.fired],
         latency |-> upd.latency]

\* the loop of pipeline_process_axon_out with every message put at the head
\* of the queue
RECURSIVE AxonOutLoop_Front(_, _, _, _)
AxonOutLoop_Front(p, c, i, a) ==
    LET n == p.neurons[c][i]
    IN  IF a > Len(n.axon_out_addresses) THEN p
        ELSE LET m == [AxonMessage(c, n.axon_out_addresses[a]) EXCEPT
                          !.generation_delay =
                              R(p.next_message_generation_delay[c]
                                + arch.hw.axon_out.latency_access)]
                 p1 == [p EXCEPT !.next_message_generation_delay[c] = 0,
                                 !.ts_messages[c] = <<m>> \o @,
                                 !.units[c].accesses = @ + 1]
             IN  AxonOutLoop_Front(p1, c, i, a + 1)

\* the loop of pipeline_process_axon_out over the axon addresses from a on
RECURSIVE AxonOutLoop(_, _, _, _)
AxonOutLoop(p, c, i, a) ==
    LET n == p.neurons[c][i]
    IN  IF a > Len(n.axon_out_addresses) THEN p
        ELSE LET m == [AxonMessage(c, n.axon_out_addresses[a]) EXCEPT
                          !.generation_delay =
                              R(p.next_message_generation_delay[c]
                                + arch.hw.axon_out.latency_access)]
                 p1 == [p EXCEPT !.next_message_generation_delay[c] = 0,
                                 !.ts_messages[c] = Append(@, m),
                                 !.units[c].accesses = @ + 1]
             IN  AxonOutLoop(p1, c, i, a + 1)

\* pipeline_process_axon_out
pipeline_process_axon_out(p, c, i, side) ==
    LET n == p.neurons[c][i]
        p1 == Called(p, c, side, "axon_out")
    IN  IF ~n.axon_out_input_spike THEN [p |-> p1, latency |-> 0]
        ELSE LET p2 == AxonOutLoop(p1, c, i, 1)
             IN  [p |-> [p2 EXCEPT
                            !.neurons[c][i].axon_out_input_spike = FALSE,
                            !.neurons[c][i].spikes_pending = @ - 1,
                            !.units[c].flagged = TRUE],
                  latency |-> arch.hw.axon_out.latency_access]

\* pipeline_process_neuron without n.spike_count = 0
pipeline_process_neuron_KeepCount(p, c, i, status) ==
    LET pos == arch.buffer_pos[c]
        none == [p |-> p, latency |-> 0]
        d == IF pos <= BUFFER_BEFORE_DENDRITE_UNIT
             THEN pipeline_process_dendrite(p, c, i, "send") ELSE none
        s == IF pos <= BUFFER_BEFORE_SOMA_UNIT
             THEN pipeline_process_soma(d.p, c, i, "send", status)
             ELSE [p |-> d.p, latency |-> 0]
        a == IF pos <= BUFFER_BEFORE_AXON_OUT_UNIT
             THEN pipeline_process_axon_out(s.p, c, i, "send")
             ELSE [p |-> s.p, latency |-> 0]
        neuron_processing_latency == d.latency + s.latency + a.latency
    IN  [a.p EXCEPT !.next_message_generation_delay[c] =
                        @ + neuron_processing_latency,
                    !.units[c].latency = @ + neuron_processing_latency]

\* pipeline_process_neuron with the dendrite unit run before the buffer up
\* to BUFFER_BEFORE_SOMA_UNIT
pipeline_process_neuron_DendriteTwice(p, c, i, status) ==
    LET pos == arch.buffer_pos[c]
        none == [p |-> p, latency |-> 0]
        d == IF pos <= BUFFER_BEFORE_SOMA_UNIT
             THEN pipeline_process_dendrite(p, c, i, "send") ELSE none
        s == IF pos <= BUFFER_BEFORE_SOMA_UNIT
             THEN pipeline_process_soma(d.p, c, i, "send", status)
             ELSE [p |-> d.p, latency |-> 0]
        a == IF pos <= BUFFER_BEFORE_AXON_OUT_UNIT
             THEN pipeline_process_axon_out(s.p, c, i, "send")
             ELSE [p |-> s.p, latency |-> 0]
        neuron_processing_latency == d.latency + s.latency + a.latency
    IN  [a.p EXCEPT !.next_message_generation_delay[c] =
                        @ + neuron_processing_latency,
                    !.neurons[c][i].spike_count = 0,
                    !.units[c].latency = @ + neuron_processing_latency]

\* pipeline_process_neuron with the latency added to the accumulator of the
\* first core instead of n.core
pipeline_process_neuron_FirstCore(p, c, i, status) ==
    LET pos == arch.buffer_pos[c]
        none == [p |-> p, latency |-> 0]
        d == IF pos <= BUFFER_BEFORE_DENDRITE_UNIT
             THEN pipeline_process_dendrite(p, c, i, "send") ELSE none
        s == IF pos <= BUFFER_BEFORE_SOMA_UNIT
             THEN pipeline_process_soma(d.p, c, i, "send", status)
             ELSE [p |-> d.p, latency |-> 0]
        a == IF pos <= BUFFER_BEFORE_AXON_OUT_UNIT
             THEN pipeline_process_axon_out(s.p, c, i, "send")
             ELSE [p |-> s.p, latency |-> 0]
        neuron_processing_latency == d.latency + s.latency + a.latency
    IN  [a.p EXCEPT !.next_message_generation_delay[PipeCores[1]] =
                        @ + neuron_processing_latency,
                    !.neurons[c][i].spike_count = 0,
                    !.units[c].latency = @ + neuron_processing_latency]

\* pipeline_process_neuron
pipeline_process_neuron(p, c, i, status) ==
    LET pos == arch.buffer_pos[c]
        none == [p |-> p, latency |-> 0]
        d == IF pos <= BUFFER_BEFORE_DENDRITE_UNIT
             THEN pipeline_process_dendrite(p, c, i, "send") ELSE none
        s == IF pos <= BUFFER_BEFORE_SOMA_UNIT
             THEN pipeline_process_soma(d.p, c, i, "send", status)
             ELSE [p |-> d.p, latency |-> 0]
        a == IF pos <= BUFFER_BEFORE_AXON_OUT_UNIT
             THEN pipeline_process_axon_out(s.p, c, i, "send")
             ELSE [p |-> s.p, latency |-> 0]
        neuron_processing_latency == d.latency + s.latency + a.latency
    IN  [a.p EXCEPT !.next_message_generation_delay[c] =
                        @ + neuron_processing_latency,
                    !.neurons[c][i].spike_count = 0,
                    !.units[c].latency = @ + neuron_processing_latency]

\* pipeline_process_neurons with the placeholder put at the head of the queue
PlaceholderStep_First(p, c) ==
    IF p.next_message_generation_delay[c] # 0
    THEN [p EXCEPT !.ts_messages[c] =
             <<Placeholder(c, p.next_message_generation_delay[c])>> \o @]
    ELSE p

\* pipeline_process_neurons, after the neurons of the core c: the placeholder
PlaceholderStep(p, c) ==
    IF p.next_message_generation_delay[c] # 0
    THEN [p EXCEPT !.ts_messages[c] =
             Append(@, Placeholder(c, p.next_message_generation_delay[c]))]
    ELSE p

\* the tiles of the mesh
Tiles == 0..(scheduler.noc_width * scheduler.noc_height - 1)

\* the counters of a tile after sim_reset_measurements
NoHops ==
    [hops |-> 0, east_hops |-> 0, west_hops |-> 0, north_hops |-> 0,
     south_hops |-> 0, messages_received |-> 0]

\* sim_estimate_network_costs counting the hops of the x path only in hops
DestHops_XOnly(dest, src_x, src_y, dest_x, dest_y) ==
    LET x_hops == abs_diff(src_x, dest_x)
        y_hops == abs_diff(src_y, dest_y)
    IN  [dest EXCEPT
            !.east_hops = IF src_x < dest_x THEN @ + x_hops ELSE @,
            !.west_hops = IF src_x < dest_x THEN @ ELSE @ + x_hops,
            !.north_hops = IF src_y < dest_y THEN @ + y_hops ELSE @,
            !.south_hops = IF src_y < dest_y THEN @ ELSE @ + y_hops,
            !.hops = @ + x_hops,
            !.messages_received = @ + 1]

\* sim_estimate_network_costs: what a message from (src_x, src_y) adds to
\* the counters dest of the tile (dest_x, dest_y) it goes to
DestHops(dest, src_x, src_y, dest_x, dest_y) ==
    LET x_hops == abs_diff(src_x, dest_x)
        y_hops == abs_diff(src_y, dest_y)
    IN  [dest EXCEPT
            !.east_hops = IF src_x < dest_x THEN @ + x_hops ELSE @,
            !.west_hops = IF src_x < dest_x THEN @ ELSE @ + x_hops,
            !.north_hops = IF src_y < dest_y THEN @ + y_hops ELSE @,
            !.south_hops = IF src_y < dest_y THEN @ ELSE @ + y_hops,
            !.hops = @ + (x_hops + y_hops),
            !.messages_received = @ + 1]

\* sim_estimate_network_costs with the hops to the east at the latency of
\* the hops to the west
sim_estimate_network_costs_West(src_x, src_y, dest_x, dest_y) ==
    LET x_hops == abs_diff(src_x, dest_x)
        y_hops == abs_diff(src_y, dest_y)
        ew == x_hops * arch.hw.tile.latency_west_hop
        ns == IF src_y < dest_y
              THEN y_hops * arch.hw.tile.latency_north_hop
              ELSE y_hops * arch.hw.tile.latency_south_hop
    IN  ew + ns

\* sim_estimate_network_costs: every hop costs what the source tile says
sim_estimate_network_costs(src_x, src_y, dest_x, dest_y) ==
    LET x_hops == abs_diff(src_x, dest_x)
        y_hops == abs_diff(src_y, dest_y)
        ew == IF src_x < dest_x
              THEN x_hops * arch.hw.tile.latency_east_hop
              ELSE x_hops * arch.hw.tile.latency_west_hop
        ns == IF src_y < dest_y
              THEN y_hops * arch.hw.tile.latency_north_hop
              ELSE y_hops * arch.hw.tile.latency_south_hop
    IN  ew + ns

\* pipeline_receive_message with the hops of the x path only
pipeline_receive_message_XHops(p, ref) ==
    LET m == p.ts_messages[ref[1]][ref[2]]
        src_x == TileX(TileOf(m.src_core_id))
        src_y == TileY(TileOf(m.src_core_id))
        dest_x == TileX(TileOf(m.dest_core_id))
        dest_y == TileY(TileOf(m.dest_core_id))
        m1 == [m EXCEPT
                  !.network_delay =
                      R(sim_estimate_network_costs(src_x, src_y,
                                                   dest_x, dest_y)),
                  !.hops = abs_diff(src_x, dest_x)]
    IN  [p EXCEPT !.ts_messages[ref[1]][ref[2]] = m1,
                  !.tiles[TileOf(m.dest_core_id)] =
                      DestHops(@, src_x, src_y, dest_x, dest_y),
                  !.messages_in[m.dest_core_id] = Append(@, ref)]

\* pipeline_receive_message for the message ref
pipeline_receive_message(p, ref) ==
    LET m == p.ts_messages[ref[1]][ref[2]]
        src_x == TileX(TileOf(m.src_core_id))
        src_y == TileY(TileOf(m.src_core_id))
        dest_x == TileX(TileOf(m.dest_core_id))
        dest_y == TileY(TileOf(m.dest_core_id))
        m1 == [m EXCEPT
                  !.network_delay =
                      R(sim_estimate_network_costs(src_x, src_y,
                                                   dest_x, dest_y)),
                  !.hops = abs_diff(src_x, dest_x) + abs_diff(src_y, dest_y)]
    IN  [p EXCEPT !.ts_messages[ref[1]][ref[2]] = m1,
                  !.tiles[TileOf(m.dest_core_id)] =
                      DestHops(@, src_x, src_y, dest_x, dest_y),
                  !.messages_in[m.dest_core_id] = Append(@, ref)]

\* the first loop of pipeline_process_messages, from the k-th message of
\* the ci-th queue on
RECURSIVE ReceiveLoop(_, _, _)
ReceiveLoop(p, ci, k) ==
    IF ci > Len(PipeCores) THEN p
    ELSE LET c == PipeCores[ci]
         IN  IF k > Len(p.ts_messages[c]) THEN ReceiveLoop(p, ci + 1, 1)
             ELSE IF ~p.ts_messages[c][k].placeholder
                  THEN ReceiveLoop(pipeline_receive_message(p, <<c, k>>),
                                   ci, k + 1)
                  ELSE ReceiveLoop(p, ci, k + 1)

\* pipeline_process_synapse; the synapse buffered stands for the current
\* read for the k-th spike the synapse unit of the core processes in the
\* timestep, and is written k
pipeline_process_synapse(p, c, j) ==
    LET p1 == Called(p, c, "receive", "synapse")
    IN  [p |-> [p1 EXCEPT !.neurons[c][j].dendrite_input_synapses =
                              Append(@, p1.units[c].receive.synapse),
                          !.neurons[c][j].spike_count = @ + 1],
         latency |-> arch.hw.synapse.latency_spike_op]

\* the loop of pipeline_process_message over the synapses of the axon from
\* the a-th on; status[j] is what the soma model of neuron j returns
RECURSIVE SynapseLoop(_, _, _, _)
SynapseLoop(p, c, a, status) ==
    LET synapse_addresses == SynapseAddresses(p.neurons, c)
    IN  IF a > Len(synapse_addresses) THEN [p |-> p, latency |-> 0]
        ELSE LET j == synapse_addresses[a]
                 syn == pipeline_process_synapse(p, c, j)
                 den == pipeline_process_dendrite(syn.p, c, j, "receive")
                 som == pipeline_process_soma(den.p, c, j, "receive",
                                              status[j])
                 one ==
                     IF arch.buffer_pos[c] = BUFFER_BEFORE_DENDRITE_UNIT
                     THEN syn
                     ELSE IF arch.buffer_pos[c] = BUFFER_BEFORE_SOMA_UNIT
                     THEN [p |-> den.p,
                           latency |-> syn.latency + den.latency]
                     ELSE [p |-> som.p,
                           latency |-> syn.latency + den.latency
                                       + som.latency]
                 rest == SynapseLoop(one.p, c, a + 1, status)
             IN  [p |-> rest.p, latency |-> one.latency + rest.latency]

\* pipeline_process_axon_in
pipeline_process_axon_in(p, c) ==
    [p |-> Called(p, c, "receive", "axon_in"),
     latency |-> arch.hw.axon_in.latency_spike_message]

\* pipeline_process_message
pipeline_process_message(p, c, status) ==
    LET axon == pipeline_process_axon_in(p, c)
        syn == SynapseLoop(axon.p, c, 1, status)
    IN  [p |-> syn.p, latency |-> axon.latency + syn.latency]

\* the state of the pipeline as the operators pass it on
PipeState ==
    [neurons |-> neurons,
     next_message_generation_delay |-> next_message_generation_delay,
     ts_messages |-> ts_messages, messages_in |-> messages_in,
     units |-> units, tiles |-> tiles, timestep |-> pipe_at.timestep]

SetPipe(p) ==
    /\ neurons' = p.neurons
    /\ next_message_generation_delay' = p.next_message_generation_delay
    /\ ts_messages' = p.ts_messages
    /\ messages_in' = p.messages_in
    /\ units' = p.units
    /\ tiles' = p.tiles

SchedulerUnused ==
    UNCHANGED <<list_vars, plugin_vars, scheduler, messages, pc,
                messages_sent_per_core, priority, noc, last_timestamp, m_cur,
                t_pop, route_density, popped, pushed, result>>

\* a chip loaded with a network, before its first timestep
InitPipe ==
    /\ scheduler \in SchedulerConfigs
    /\ scheduler.buffer_size = 0
    /\ messages = [c \in Cores |-> <<>>]
    /\ pc = "pipeline"
    /\ messages_sent_per_core = [c \in Cores |-> <<>>]
    /\ priority = <<>>
    /\ noc = EmptyNoc
    /\ last_timestamp = R(0)
    /\ m_cur = NoRef
    /\ t_pop = NegInf
    /\ route_density = 0
    /\ popped = <<>>
    /\ pushed = <<>>
    /\ result = NegInf
    /\ ListIdle
    /\ PluginIdle
    /\ arch \in Architectures
    /\ neurons \in NeuronMaps
    /\ next_message_generation_delay = [c \in PipeCoreIds |-> 0]
    /\ ts_messages = [c \in PipeCoreIds |-> <<>>]
    /\ messages_in = [c \in PipeCoreIds |-> <<>>]
    /\ pipe_pc = "neurons"
    /\ pipe_at = [timestep |-> 1, core |-> 1, item |-> 1,
                  timesteps |-> Timesteps]
    /\ units = [c \in PipeCoreIds |-> NoCalls]
    /\ tiles = [t \in Tiles |-> NoHops]

\* pipeline_process_neurons: the next neuron of the core
ProcessNeuron ==
    /\ pipe_pc = "neurons"
    /\ pipe_at.item <= Len(neurons[PipeCores[pipe_at.core]])
    /\ \E status \in [pipe_at.timesteps -> Statuses] :
          SetPipe(pipeline_process_neuron(PipeState, PipeCores[pipe_at.core],
                                          pipe_at.item, status))
    /\ pipe_at' = [pipe_at EXCEPT !.item = @ + 1]
    /\ UNCHANGED <<arch, pipe_pc>>
    /\ SchedulerUnused

\* pipeline_process_neurons: after the last neuron of the core
ProcessNeuronsEnd ==
    /\ pipe_pc = "neurons"
    /\ pipe_at.item > Len(neurons[PipeCores[pipe_at.core]])
    /\ SetPipe(PlaceholderStep(PipeState, PipeCores[pipe_at.core]))
    /\ IF pipe_at.core < Len(PipeCores)
       THEN /\ pipe_at' = [pipe_at EXCEPT !.core = @ + 1, !.item = 1]
            /\ pipe_pc' = "neurons"
       ELSE /\ pipe_at' = [pipe_at EXCEPT !.core = 1, !.item = 1]
            /\ pipe_pc' = "receive"
    /\ UNCHANGED arch
    /\ SchedulerUnused

\* pipeline_process_messages: the messages are handed to their cores
ReceiveMessages ==
    /\ pipe_pc = "receive"
    /\ SetPipe(ReceiveLoop(PipeState, 1, 1))
    /\ pipe_pc' = "messages"
    /\ UNCHANGED <<arch, pipe_at>>
    /\ SchedulerUnused

\* what the soma models of the neurons of the core c may return to the
\* receive side, update by update: nothing is asked of them unless the
\* buffer is before the axon-out unit
SomaResults(c) ==
    IF arch.buffer_pos[c] = BUFFER_BEFORE_AXON_OUT_UNIT
    THEN [1..Len(neurons[c]) -> [pipe_at.timesteps -> Statuses]]
    ELSE {[j \in 1..Len(neurons[c]) |-> [k \in pipe_at.timesteps |-> IDLE]]}

\* pipeline_process_messages: the next message of the core
ProcessMessage ==
    /\ pipe_pc = "messages"
    /\ pipe_at.item <= Len(messages_in[PipeCores[pipe_at.core]])
    /\ \E status \in SomaResults(PipeCores[pipe_at.core]) :
          LET c == PipeCores[pipe_at.core]
              ref == messages_in[c][pipe_at.item]
              done == pipeline_process_message(PipeState, c, status)
          IN  SetPipe([done.p EXCEPT
                          !.ts_messages[ref[1]][ref[2]].receive_delay =
                              RAdd(@, R(done.latency))])
    /\ pipe_at' = [pipe_at EXCEPT !.item = @ + 1]
    /\ UNCHANGED <<arch, pipe_pc>>
    /\ SchedulerUnused

\* pipeline_process_messages: after the last message of the core
ProcessMessagesEnd ==
    /\ pipe_pc = "messages"
    /\ pipe_at.item > Len(messages_in[PipeCores[pipe_at.core]])
    /\ IF pipe_at.core < Len(PipeCores)
       THEN /\ pipe_at' = [pipe_at EXCEPT !.core = @ + 1, !.item = 1]
            /\ pipe_pc' = "messages"
       ELSE /\ pipe_at' = [pipe_at EXCEPT !.core = 1, !.item = 1]
            /\ pipe_pc' = "done"
    /\ UNCHANGED <<arch, neurons, next_message_generation_delay,
                   ts_messages, messages_in, units, tiles>>
    /\ SchedulerUnused

\* the start of the next timestep without arch_init_message(&next_message)
ResetMeasurements_KeepDelay ==
    /\ pipe_pc = "done"
    /\ pipe_at.timestep + 1 \in pipe_at.timesteps
    /\ ts_messages' = [c \in PipeCoreIds |-> <<>>]
    /\ messages_in' = [c \in PipeCoreIds |-> <<>>]
    /\ units' = [c \in PipeCoreIds |-> NoCalls]
    /\ tiles' = [t \in Tiles |-> NoHops]
    /\ pipe_at' = [pipe_at EXCEPT !.timestep = @ + 1]
    /\ pipe_pc' = "neurons"
    /\ UNCHANGED <<arch, neurons, next_message_generation_delay>>
    /\ SchedulerUnused

\* the start of the next timestep: sim_init_timestep and
\* sim_reset_measurements
ResetMeasurements ==
    /\ pipe_pc = "done"
    /\ pipe_at.timestep + 1 \in pipe_at.timesteps
    /\ next_message_generation_delay' = [c \in PipeCoreIds |-> 0]
    /\ ts_messages' = [c \in PipeCoreIds |-> <<>>]
    /\ messages_in' = [c \in PipeCoreIds |-> <<>>]
    /\ units' = [c \in PipeCoreIds |-> NoCalls]
    /\ tiles' = [t \in Tiles |-> NoHops]
    /\ pipe_at' = [pipe_at EXCEPT !.timestep = @ + 1]
    /\ pipe_pc' = "neurons"
    /\ UNCHANGED <<arch, neurons>>
    /\ SchedulerUnused

NextPipe ==
    \/ ProcessNeuron
    \/ ProcessNeuronsEnd
    \/ ReceiveMessages
    \/ ProcessMessage
    \/ ProcessMessagesEnd
    \/ ResetMeasurements

SpecPipe == InitPipe /\ [][NextPipe]_vars

(***************************************************************************)
(* The hardware units of one neuron over a longer run: a neuron on core 0  *)
(* that may have spikes forced, and none or one neuron on core 2 whose     *)
(* axon leads to core 0.                                                   *)
(***************************************************************************)
UnitTimesteps == 1..4
ForcedSpikes == 0..2

UnitNeuronMaps ==
    { [c \in PipeCoreIds |-> IF c = 0 THEN <<on0>>
                             ELSE IF c = 2 THEN on2 ELSE <<>>] :
        on0 \in { [MappedNeuron(a) EXCEPT !.forced_spikes = f] :
                    a \in AxonLists, f \in ForcedSpikes },
        on2 \in { <<>>, <<MappedNeuron(<<0>>)>> } }

\* a chip loaded with the network, before the first of the timesteps
InitUnits ==
    /\ scheduler \in SchedulerConfigs
    /\ scheduler.buffer_size = 0
    /\ messages = [c \in Cores |-> <<>>]
    /\ pc = "pipeline"
    /\ messages_sent_per_core = [c \in Cores |-> <<>>]
    /\ priority = <<>>
    /\ noc = EmptyNoc
    /\ last_timestamp = R(0)
    /\ m_cur = NoRef
    /\ t_pop = NegInf
    /\ route_density = 0
    /\ popped = <<>>
    /\ pushed = <<>>
    /\ result = NegInf
    /\ ListIdle
    /\ PluginIdle
    /\ arch \in Architectures
    /\ neurons \in UnitNeuronMaps
    /\ next_message_generation_delay = [c \in PipeCoreIds |-> 0]
    /\ ts_messages = [c \in PipeCoreIds |-> <<>>]
    /\ messages_in = [c \in PipeCoreIds |-> <<>>]
    /\ pipe_pc = "neurons"
    /\ pipe_at = [timestep |-> 1, core |-> 1, item |-> 1,
                  timesteps |-> UnitTimesteps]
    /\ units = [c \in PipeCoreIds |-> NoCalls]
    /\ tiles = [t \in Tiles |-> NoHops]

SpecUnits == InitUnits /\ [][NextPipe]_vars

(***************************************************************************)
(* One timestep with the outer loops of the pipeline run by one worker per *)
(* core: the loop of pipeline_process_neurons, the first loop of           *)
(* pipeline_process_messages (one worker per queue) and its second loop.  *)
(* pipe_at.item[c] is the position of the worker of core c in its loop; a *)
(* phase starts when every worker has left the phase before.  The soma    *)
(* models are deterministic: the first neuron of a core fires, the others *)
(* are updated without firing.                                             *)
(***************************************************************************)
SomaModel(c, i) == [k \in 1..1 |-> IF i = 1 THEN FIRED ELSE UPDATED]

SomaModels(p, c) == [j \in 1..Len(p.neurons[c]) |-> SomaModel(c, j)]

\* pipeline_process_neurons, in the order of the code, from the i-th neuron
\* of the ci-th core on
RECURSIVE pipeline_process_neurons(_, _, _)
pipeline_process_neurons(p, ci, i) ==
    IF ci > Len(PipeCores) THEN p
    ELSE LET c == PipeCores[ci]
         IN  IF i <= Len(p.neurons[c])
             THEN pipeline_process_neurons(
                      pipeline_process_neuron(p, c, i, SomaModel(c, i)),
                      ci, i + 1)
             ELSE pipeline_process_neurons(PlaceholderStep(p, c), ci + 1, 1)

\* m->receive_delay += pipeline_process_message(ts, core, *m) for the k-th
\* message of core.messages_in
ProcessReceived(p, c, k) ==
    LET ref == p.messages_in[c][k]
        done == pipeline_process_message(p, c, SomaModels(p, c))
    IN  [done.p EXCEPT !.ts_messages[ref[1]][ref[2]].receive_delay =
                           RAdd(@, R(done.latency))]

\* the second loop of pipeline_process_messages, in the order of the code,
\* from the k-th message of the ci-th core on
RECURSIVE MessagesLoop(_, _, _)
MessagesLoop(p, ci, k) ==
    IF ci > Len(PipeCores) THEN p
    ELSE LET c == PipeCores[ci]
         IN  IF k <= Len(p.messages_in[c])
             THEN MessagesLoop(ProcessReceived(p, c, k), ci, k + 1)
             ELSE MessagesLoop(p, ci + 1, 1)

\* a chip loaded with a network, every worker at the start of its loop
InitWorkers ==
    /\ scheduler \in SchedulerConfigs
    /\ scheduler.buffer_size = 0
    /\ messages = [c \in Cores |-> <<>>]
    /\ pc = "pipeline"
    /\ messages_sent_per_core = [c \in Cores |-> <<>>]
    /\ priority = <<>>
    /\ noc = EmptyNoc
    /\ last_timestamp = R(0)
    /\ m_cur = NoRef
    /\ t_pop = NegInf
    /\ route_density = 0
    /\ popped = <<>>
    /\ pushed = <<>>
    /\ result = NegInf
    /\ ListIdle
    /\ PluginIdle
    /\ arch \in Architectures
    /\ neurons \in NeuronMaps
    /\ next_message_generation_delay = [c \in PipeCoreIds |-> 0]
    /\ ts_messages = [c \in PipeCoreIds |-> <<>>]
    /\ messages_in = [c \in PipeCoreIds |-> <<>>]
    /\ pipe_pc = "worker_neurons"
    /\ pipe_at = [timestep |-> 1, item |-> [c \in PipeCoreIds |-> 1]]
    /\ units = [c \in PipeCoreIds |-> NoCalls]
    /\ tiles = [t \in Tiles |-> NoHops]

\* the worker of a core in pipeline_process_neurons: its next neuron
WorkerNeuron ==
    /\ pipe_pc = "worker_neurons"
    /\ \E c \in PipeCoreIds :
          /\ pipe_at.item[c] <= Len(neurons[c])
          /\ SetPipe(pipeline_process_neuron(PipeState, c, pipe_at.item[c],
                                             SomaModel(c, pipe_at.item[c])))
          /\ pipe_at' = [pipe_at EXCEPT !.item[c] = @ + 1]
    /\ UNCHANGED <<arch, pipe_pc>>
    /\ SchedulerUnused

\* the worker of a core in pipeline_process_neurons: after its last neuron
WorkerPlaceholder ==
    /\ pipe_pc = "worker_neurons"
    /\ \E c \in PipeCoreIds :
          /\ pipe_at.item[c] = Len(neurons[c]) + 1
          /\ SetPipe(PlaceholderStep(PipeState, c))
          /\ pipe_at' = [pipe_at EXCEPT !.item[c] = @ + 1]
    /\ UNCHANGED <<arch, pipe_pc>>
    /\ SchedulerUnused

\* every worker has left pipeline_process_neurons
NeuronsJoin ==
    /\ pipe_pc = "worker_neurons"
    /\ \A c \in PipeCoreIds : pipe_at.item[c] = Len(neurons[c]) + 2
    /\ pipe_pc' = "worker_receive"
    /\ pipe_at' = [pipe_at EXCEPT !.item = [c \in PipeCoreIds |-> 1]]
    /\ UNCHANGED <<arch, neurons, next_message_generation_delay,
                   ts_messages, messages_in, units, tiles>>
    /\ SchedulerUnused

\* another worker has a message for the core d still to hand over: its
\* push_back on messages_in of d is not ordered with the one of c
Unordered(c, d) ==
    \E o \in PipeCoreIds \ {c} :
       \E k \in pipe_at.item[o]..Len(ts_messages[o]) :
          /\ ~ts_messages[o][k].placeholder
          /\ ts_messages[o][k].dest_core_id = d

\* the worker of a queue in the first loop of pipeline_process_messages:
\* its next message.  core.messages_in.push_back(&m) and the counting on
\* the tile of the core are not synchronised: of two pushes that are not
\* ordered either may come first, or one is lost, and so may one count
WorkerReceive ==
    /\ pipe_pc = "worker_receive"
    /\ \E c \in PipeCoreIds :
          /\ pipe_at.item[c] <= Len(ts_messages[c])
          /\ LET ref == <<c, pipe_at.item[c]>>
                 m == ts_messages[c][pipe_at.item[c]]
                 pushed_back == pipeline_receive_message(PipeState, ref)
                 lost == {[pushed_back EXCEPT !.messages_in = messages_in],
                          [pushed_back EXCEPT !.tiles = tiles],
                          [pushed_back EXCEPT !.messages_in = messages_in,
                                              !.tiles = tiles]}
             IN  IF m.placeholder
                 THEN UNCHANGED <<neurons, next_message_generation_delay,
                                  ts_messages, messages_in, units,
                                  tiles>>
                 ELSE \/ SetPipe(pushed_back)
                      \/ /\ Unordered(c, m.dest_core_id)
                         /\ \E racy \in lost : SetPipe(racy)
          /\ pipe_at' = [pipe_at EXCEPT !.item[c] = @ + 1]
    /\ UNCHANGED <<arch, pipe_pc>>
    /\ SchedulerUnused

\* every worker has left the first loop
ReceiveJoin ==
    /\ pipe_pc = "worker_receive"
    /\ \A c \in PipeCoreIds : pipe_at.item[c] = Len(ts_messages[c]) + 1
    /\ pipe_pc' = "worker_messages"
    /\ pipe_at' = [pipe_at EXCEPT !.item = [c \in PipeCoreIds |-> 1]]
    /\ UNCHANGED <<arch, neurons, next_message_generation_delay,
                   ts_messages, messages_in, units, tiles>>
    /\ SchedulerUnused

\* the worker of a core in the second loop of pipeline_process_messages:
\* its next message
WorkerMessage ==
    /\ pipe_pc = "worker_messages"
    /\ \E c \in PipeCoreIds :
          /\ pipe_at.item[c] <= Len(messages_in[c])
          /\ SetPipe(ProcessReceived(PipeState, c, pipe_at.item[c]))
          /\ pipe_at' = [pipe_at EXCEPT !.item[c] = @ + 1]
    /\ UNCHANGED <<arch, pipe_pc>>
    /\ SchedulerUnused

\* every worker has left the second loop
MessagesJoin ==
    /\ pipe_pc = "worker_messages"
    /\ \A c \in PipeCoreIds : pipe_at.item[c] = Len(messages_in[c]) + 1
    /\ pipe_pc' = "worker_done"
    /\ UNCHANGED <<arch, neurons, next_message_generation_delay,
                   ts_messages, messages_in, pipe_at, units, tiles>>
    /\ SchedulerUnused

NextWorkers ==
    \/ WorkerNeuron
    \/ WorkerPlaceholder
    \/ NeuronsJoin
    \/ WorkerReceive
    \/ ReceiveJoin
    \/ WorkerMessage
    \/ MessagesJoin

SpecWorkers == InitWorkers /\ [][NextWorkers]_vars

(***************************************************************************)
(* The plugins (plugins.cpp): the factories of the synapse, dendrite and   *)
(* soma models, looked up by model name and loaded from a library on the   *)
(* first request.  A factory is named by the library and the model it      *)
(* comes from; nullptr is what dlsym returns for a symbol it cannot find.  *)
(***************************************************************************)
ModelNames == {"a", "b"}

\* the plugin paths a request may give: none, a file that dlopen cannot
\* load, a library with create_a only, a library with create_a and create_b
PluginPaths == {"", "missing.so", "lib_a.so", "lib_ab.so"}

\* the symbols of the libraries that dlopen can load
Libraries ==
    [lib_a |-> {"a"}, lib_ab |-> {"a", "b"}]

LibraryOf(plugin_path) ==
    IF plugin_path = "lib_a.so" THEN "lib_a"
    ELSE IF plugin_path = "lib_ab.so" THEN "lib_ab" ELSE "none"

nullptr == "nullptr"

\* dlopen(plugin_path.c_str(), RTLD_LAZY | RTLD_GLOBAL)
dlopen(plugin_path) ==
    IF LibraryOf(plugin_path) = "none" THEN nullptr
    ELSE LibraryOf(plugin_path)

\* dlsym(handle, create.c_str()) with create = "create_" + model_name
dlsym(handle, model_name) ==
    IF model_name \in Libraries[handle] THEN <<handle, model_name>>
    ELSE nullptr

\* the map with model_name set to create_func
Stored(cache, model_name, create_func) ==
    [n \in DOMAIN cache \cup {model_name} |->
        IF n = model_name THEN create_func ELSE cache[n]]

\* plugin_init_synapse, plugin_init_dendrite and plugin_init_soma, which
\* differ in the map only: the map afterwards and the exception thrown
plugin_init(cache, model_name, plugin_path) ==
    LET handle == dlopen(plugin_path)
        create_func == dlsym(handle, model_name)
    IN  IF handle = nullptr
        THEN [cache |-> cache, thrown |-> "Could not load library"]
        ELSE IF create_func = nullptr
        THEN [cache |-> Stored(cache, model_name, create_func),
              thrown |-> "Could not load symbol"]
        ELSE [cache |-> Stored(cache, model_name, create_func),
              thrown |-> "none"]

\* what calling the factory create_func comes to: a call through a null
\* pointer is undefined, the process may end or go on with whatever the
\* call left
Created(create_func) ==
    IF create_func = nullptr THEN {"crash", "undefined"} ELSE {"unit"}

\* plugin_get_synapse, plugin_get_dendrite and plugin_get_soma, which
\* differ in the map only: the map afterwards and the results there may be
plugin_get(cache, unit, model_name, plugin_path) ==
    LET init == IF model_name \in DOMAIN cache
                THEN [cache |-> cache, thrown |-> "none"]
                ELSE plugin_init(cache, model_name, plugin_path)
        call == [unit |-> unit, model_name |-> model_name,
                 loaded |-> model_name \notin DOMAIN cache]
    IN  IF plugin_path = ""
        THEN [cache |-> cache,
              results |-> {[unit |-> unit, model_name |-> model_name,
                            loaded |-> FALSE,
                            thrown |-> "No plugin path given",
                            factory |-> "none", created |-> "none"]}]
        ELSE IF init.thrown # "none"
        THEN [cache |-> init.cache,
              results |-> {[unit |-> unit, model_name |-> model_name,
                            loaded |-> call.loaded,
                            thrown |-> init.thrown,
                            factory |-> "none", created |-> "none"]}]
        ELSE [cache |-> init.cache,
              results |->
                 {[unit |-> unit, model_name |-> model_name,
                   loaded |-> call.loaded, thrown |-> "none",
                   factory |-> init.cache[model_name], created |-> c] :
                  c \in Created(init.cache[model_name])}]

InitPlugins ==
    /\ InitScheduler
    /\ scheduler.buffer_size = 0
    /\ ListIdle
    /\ PipeIdle
    /\ PluginIdle

PluginsOnly ==
    UNCHANGED <<list_vars, pipe_vars, scheduler, messages, pc,
                messages_sent_per_core, priority, noc, last_timestamp, m_cur,
                t_pop, route_density, popped, pushed, result>>

\* the process goes on after a request unless it crashed
Running == plugin_result.created # "crash"

GetSynapse ==
    /\ Running
    /\ \E model_name \in ModelNames, plugin_path \in PluginPaths :
          LET got == plugin_get(plugin_create_synapse, "synapse",
                                model_name, plugin_path)
          IN  /\ plugin_create_synapse' = got.cache
              /\ plugin_result' \in got.results
    /\ UNCHANGED <<plugin_create_dendrite, plugin_create_soma>>
    /\ PluginsOnly

GetDendrite ==
    /\ Running
    /\ \E model_name \in ModelNames, plugin_path \in PluginPaths :
          LET got == plugin_get(plugin_create_dendrite, "dendrite",
                                model_name, plugin_path)
          IN  /\ plugin_create_dendrite' = got.cache
              /\ plugin_result' \in got.results
    /\ UNCHANGED <<plugin_create_synapse, plugin_create_soma>>
    /\ PluginsOnly

GetSoma ==
    /\ Running
    /\ \E model_name \in ModelNames, plugin_path \in PluginPaths :
          LET got == plugin_get(plugin_create_soma, "soma",
                                model_name, plugin_path)
          IN  /\ plugin_create_soma' = got.cache
              /\ plugin_result' \in got.results
    /\ UNCHANGED <<plugin_create_synapse, plugin_create_dendrite>>
    /\ PluginsOnly

NextPlugins ==
    \/ GetSynapse
    \/ GetDendrite
    \/ GetSoma

SpecPlugins == InitPlugins /\ [][NextPlugins]_vars

(***************************************************************************)
(* schedule_messages on a burst: four spike messages from core 0 on tile   *)
(* (0,0) to core 3 on tile (3,0) of a mesh of four tiles in a row, with    *)
(* buffer_size 1.  Every hop has a latency of one time unit, every         *)
(* receive_delay is above 0.                                               *)
(***************************************************************************)
BurstScheduler ==
    [noc_width |-> 4, noc_height |-> 1, core_count |-> 4,
     max_cores_per_tile |-> 1, buffer_size |-> 1]

BurstReceiveDelays == {1, 2}

\* the queues handed to schedule_messages
InitBurst ==
    /\ scheduler = BurstScheduler
    /\ \E gen \in [1..4 -> Delays], recv \in [1..4 -> BurstReceiveDelays] :
          messages = [c \in Cores |->
                        IF c = 0
                        THEN [k \in 1..4 |->
                                SpikeMessage(0, 3, gen[k], recv[k])]
                        ELSE <<>>]
    /\ pc = "pipeline"
    /\ messages_sent_per_core = [c \in Cores |-> <<>>]
    /\ priority = <<>>
    /\ noc = [message_density |-> <<>>, messages_received |-> <<>>,
              core_finished_receiving |-> <<>>,
              mean_in_flight_receive_delay |-> R(0), messages_in_noc |-> 0]
    /\ last_timestamp = R(0)
    /\ m_cur = NoRef
    /\ t_pop = NegInf
    /\ route_density = R(0)
    /\ popped = <<>>
    /\ pushed = <<>>
    /\ result = NegInf
    /\ ListIdle
    /\ PluginIdle
    /\ PipeIdle

NextBurst ==
    \/ Start
    \/ Pop
    \/ Send
    \/ NextMessage
    \/ Return

SpecBurst == InitBurst /\ [][NextBurst]_vars

(***************************************************************************)
(* schedule_messages on the queues of two cores: two spike messages from   *)
(* core 0 and one from core 2, to any cores of the 2x2 mesh, with          *)
(* buffer_size 0, so that every message in flight on the route holds the   *)
(* next one back.                                                          *)
(***************************************************************************)
InitCrossing ==
    /\ scheduler \in SchedulerConfigs
    /\ scheduler.buffer_size = 0
    /\ \E dest \in [1..3 -> Cores], gen \in [1..3 -> Delays],
          recv \in [1..3 -> BurstReceiveDelays] :
          messages = [c \in Cores |->
                        IF c = 0
                        THEN [k \in 1..2 |->
                                SpikeMessage(0, dest[k], gen[k], recv[k])]
                        ELSE IF c = 2
                        THEN <<SpikeMessage(2, dest[3], gen[3], recv[3])>>
                        ELSE <<>>]
    /\ pc = "pipeline"
    /\ messages_sent_per_core = [c \in Cores |-> <<>>]
    /\ priority = <<>>
    /\ noc = [message_density |-> <<>>, messages_received |-> <<>>,
              core_finished_receiving |-> <<>>,
              mean_in_flight_receive_delay |-> R(0), messages_in_noc |-> 0]
    /\ last_timestamp = R(0)
    /\ m_cur = NoRef
    /\ t_pop = NegInf
    /\ route_density = R(0)
    /\ popped = <<>>
    /\ pushed = <<>>
    /\ result = NegInf
    /\ ListIdle
    /\ PluginIdle
    /\ PipeIdle

SpecCrossing == InitCrossing /\ [][NextBurst]_vars

(***************************************************************************)
(* Properties                                                              *)
(***************************************************************************)
RealRefs == { r \in Refs : ~Msg(r).placeholder }
PlaceholderRefs == { r \in Refs : Msg(r).placeholder }

\* the largest of a non-empty finite set of doubles
RMaxOf(S) == CHOOSE a \in S : \A b \in S : RLe(b, a)

Ordered(m) ==
    /\ RLe(m.sent_timestamp, m.received_timestamp)
    /\ RLe(m.received_timestamp, m.processed_timestamp)

\* whether the message has entered the NoC and left it again
Left(m) == ~m.placeholder /\ ~m.in_noc /\ ~IsNegInf(m.received_timestamp)

NoDuplicates(seq) ==
    \A i, j \in 1..Len(seq) : i # j => seq[i] # seq[j]

\* C1 as claimed: after schedule_messages every message, real or
\* placeholder, has sent <= received <= processed
C1_AllOrdered ==
    pc = "done" => \A r \in Refs : Ordered(Msg(r))

\* C1 as amended: after schedule_messages every real (non-placeholder)
\* message has sent <= received <= processed; a placeholder keeps its
\* received and processed timestamps at -infinity
C1_RealOrdered ==
    pc = "done" =>
        /\ \A r \in RealRefs : Ordered(Msg(r))
        /\ \A r \in PlaceholderRefs :
              /\ IsNegInf(Msg(r).received_timestamp)
              /\ IsNegInf(Msg(r).processed_timestamp)

C1_Witness ==
    /\ pc = "done"
    /\ \E r \in RealRefs :
          /\ RLt(Msg(r).generation_delay, Msg(r).sent_timestamp)
          /\ RLt(Msg(r).sent_timestamp, Msg(r).received_timestamp)
          /\ RLt(Msg(r).received_timestamp, Msg(r).processed_timestamp)

\* C2 as claimed: the value returned is the largest processed_timestamp of
\* the real messages, or the largest sent_timestamp when every message is
\* a placeholder
C2_MaxProcessed ==
    (pc = "done" /\ Refs # {}) =>
        result = IF RealRefs # {}
                 THEN RMaxOf({ Msg(r).processed_timestamp : r \in RealRefs })
                 ELSE RMaxOf({ Msg(r).sent_timestamp : r \in Refs })

\* C2 as amended: the value returned is the largest of 0, the
\* processed_timestamp of every real message and the sent_timestamp of
\* every placeholder
C2_LastEvent ==
    pc = "done" =>
        result = RMaxOf({R(0)}
                     \cup { Msg(r).processed_timestamp : r \in RealRefs }
                     \cup { Msg(r).sent_timestamp : r \in PlaceholderRefs })

C2_Witness ==
    /\ pc = "done"
    /\ \E r \in RealRefs, p \in PlaceholderRefs :
          /\ p[1] = r[1]
          /\ result = Msg(p).sent_timestamp
          /\ \A q \in RealRefs : RLt(Msg(q).processed_timestamp, result)

\* C3: the main loop terminates; every message is pushed once and popped
\* once, so that the loop runs once per message and leaves the priority
\* queue and every per-core send queue empty
C3_Lifecycle ==
    /\ <>(pc = "done")
    /\ [](NoDuplicates(pushed) /\ NoDuplicates(popped))
    /\ [](pc = "done" =>
              /\ Len(popped) = TotalMessages
              /\ { popped[i] : i \in 1..Len(popped) } = Refs
              /\ { pushed[i] : i \in 1..Len(pushed) } = Refs
              /\ priority = <<>>
              /\ \A c \in Cores : messages_sent_per_core[c] = <<>>)

C3_Witness ==
    /\ pc = "done"
    /\ Len(popped) >= 2
    /\ RealRefs # {}
    /\ PlaceholderRefs # {}

\* C4: no entry of message_density is ever negative, and neither is the
\* density summed along a route
C4_DensityNonNegative ==
    pc # "pipeline" =>
        /\ \A l \in DOMAIN noc.message_density :
              RLe(R(0), noc.message_density[l])
        /\ RLe(R(0), route_density)
        /\ pc = "send" =>
              RLe(R(0), schedule_calculate_messages_along_route(
                            Msg(m_cur), noc))

C4_Witness ==
    /\ pc = "next"
    /\ \E l \in DOMAIN noc.message_density :
          RLt(R(0), noc.message_density[l])
    /\ \E r \in Refs : Left(Msg(r))

\* C5: between the steps of the loop messages_in_noc is the number of
\* messages whose in_noc flag is set
C5_MessagesInNoc ==
    pc # "pipeline" =>
        noc.messages_in_noc = Cardinality({ r \in Refs : Msg(r).in_noc })

C5_Witness ==
    /\ pc = "pop"
    /\ noc.messages_in_noc = 1
    /\ \E r \in Refs : Left(Msg(r))

\* C6: a real message popped with a route density, measured before it
\* enters the NoC, of at most (hops+1)*buffer_size keeps its
\* sent_timestamp; otherwise the excess times the mean in-flight receive
\* delay, also measured before it enters, is added to it
C6_BackPressure ==
    [][(pc = "send" /\ pc' = "next") =>
          LET m == Msg(m_cur)
              density == schedule_calculate_messages_along_route(m, noc)
              capacity == (m.hops + 1) * scheduler.buffer_size
              mean == noc.mean_in_flight_receive_delay
              sent == messages'[m_cur[1]][m_cur[2]].sent_timestamp
          IN  IF RLe(density, R(capacity))
              THEN sent = m.sent_timestamp
              ELSE sent = RAdd(m.sent_timestamp,
                               RMul(RSub(density, R(capacity)), mean))]_vars

C6_Witness ==
    /\ pc = "next"
    /\ ~Msg(m_cur).placeholder
    /\ RLt(t_pop, Msg(m_cur).sent_timestamp)

C6_WitnessUnchanged ==
    /\ pc = "next"
    /\ ~Msg(m_cur).placeholder
    /\ scheduler.buffer_size = 1
    /\ RLt(R(0), route_density)
    /\ t_pop = Msg(m_cur).sent_timestamp

\* the sum of all entries of message_density
TotalDensity ==
    SumDensity(noc.message_density,
               [i \in 1..TotalLinks |-> i - 1])

\* C7 as claimed: a message in the NoC has added 1/(hops+2) to hops+2
\* links, the last of them the in-link of its destination core, so that
\* the densities add up to the number of messages in the NoC
C7_UnitDensity ==
    pc # "pipeline" =>
        /\ \A r \in RealRefs :
              LET m == Msg(r)
                  route == UpdateRoute(m)
              IN  /\ Len(route) = m.hops + 2
                  /\ route[Len(route)] =
                         idx(m.dest_x, m.dest_y,
                             ndirections + m.dest_core_offset)
        /\ TotalDensity = R(noc.messages_in_noc)

\* C8: the priority queue never holds two messages of one source core, and
\* the messages of a core are popped in the order of its queue
C8_OnePerCore ==
    /\ \A i, j \in 1..Len(priority) :
          i # j => priority[i][1] # priority[j][1]
    /\ \A c \in Cores :
          LET mine == SelectSeq(popped, LAMBDA r : r[1] = c)
          IN  \A k \in 1..Len(mine) : mine[k] = <<c, k>>

C8_Witness ==
    /\ pc = "done"
    /\ \E c \in Cores : Len(SelectSeq(popped, LAMBDA r : r[1] = c)) >= 2

\* C9 as claimed: of two queues in the list whose tail messages have equal
\* sent_timestamp, the one inserted earlier is nearer the head, and so is
\* popped first, wherever in the list the two are
C9_StableTies ==
    \A i, j \in 1..Len(priority_queue) :
        (/\ i < j
         /\ TailSent(message_queues, priority_queue[i])
                = TailSent(message_queues, priority_queue[j]))
            => inserted_at[priority_queue[i]] < inserted_at[priority_queue[j]]

\* the messages as the pipeline phases hand them to schedule_messages
Unscheduled(msgs) ==
    [c \in DOMAIN msgs |->
        [k \in 1..Len(msgs[c]) |->
            [msgs[c][k] EXCEPT !.sent_timestamp = NegInf,
                               !.received_timestamp = NegInf,
                               !.processed_timestamp = NegInf,
                               !.in_noc = FALSE]]]

\* the run of schedule_messages in which, of the entries with the least
\* sent_timestamp, the one pushed first is popped
RECURSIVE StableRun(_)
StableRun(st) ==
    IF st.queue = <<>> THEN st
    ELSE LET least == MinEntries(st.queue, st.msgs)
             i == CHOOSE a \in least : \A b \in least : a <= b
             ref == st.queue[i]
             st1 == PopStep(st, i)
             st2 == IF st1.msgs[ref[1]][ref[2]].placeholder
                    THEN st1
                    ELSE SendStep(st1, ref)
         IN  StableRun(NextStep(st2, ref))

InNocRefs == { r \in Refs : Msg(r).in_noc }

\* the sum of receive_delay over a set of references
RECURSIVE SumReceiveDelay(_)
SumReceiveDelay(S) ==
    IF S = {} THEN R(0)
    ELSE LET r == CHOOSE x \in S : TRUE
         IN  RAdd(Msg(r).receive_delay, SumReceiveDelay(S \ {r}))

\* C11: whatever messages have entered and left the NoC,
\* mean_in_flight_receive_delay is the arithmetic mean of receive_delay over
\* the messages now in the NoC, and 0 when there is none
C11_RollingMean ==
    pc # "pipeline" =>
        noc.mean_in_flight_receive_delay =
            IF InNocRefs = {} THEN R(0)
            ELSE RDiv(SumReceiveDelay(InNocRefs), R(Cardinality(InNocRefs)))

\* a message has left the NoC while an earlier one of the same core, of
\* another receive_delay, stayed in it
C11_Witness ==
    /\ pc = "noc"
    /\ \E c \in Cores :
          /\ Len(messages[c]) >= 2
          /\ messages[c][1].in_noc
          /\ Left(messages[c][2])
          /\ messages[c][1].receive_delay # messages[c][2].receive_delay
          /\ RLt(R(0), noc.mean_in_flight_receive_delay)

\* the density left when each message of a set has taken its share from
\* the links of its route once
RECURSIVE DensityWithout(_, _)
DensityWithout(density, S) ==
    IF S = {} THEN density
    ELSE LET r == CHOOSE x \in S : TRUE
             m == Msg(r)
         IN  DensityWithout(
                 AdjustDensity(density, UpdateRoute(m),
                               RMul(R(-1), Adjust(m.hops))),
                 S \ {r})

\* C12: a call schedule_update_noc(t) leaves no message in a
\* messages_received list that is in the NoC and was received by t; the
\* messages it removes are exactly those, each loses its in_noc flag, its
\* place in the list, its share of the density and its count once, and no
\* other message is touched
C12_UpdateNoc ==
    [][(pc = "noc" /\ TotalMessages' = TotalMessages) =>
          LET t == t_pop'
              removed == { r \in Refs : /\ Msg(r).in_noc
                                        /\ RLe(Msg(r).received_timestamp, t) }
          IN  /\ \A c \in Cores :
                    \A k \in 1..Len(noc'.messages_received[c]) :
                        LET r == noc'.messages_received[c][k]
                            m == messages'[r[1]][r[2]]
                        IN  /\ r \notin removed
                            /\ ~(m.in_noc /\ RLe(m.received_timestamp, t))
              /\ \A r \in removed :
                    messages'[r[1]][r[2]] = [Msg(r) EXCEPT !.in_noc = FALSE]
              /\ \A r \in Refs \ removed :
                    /\ messages'[r[1]][r[2]] = Msg(r)
                    /\ Msg(r).in_noc =>
                          \E k \in 1..Len(noc'.messages_received[
                                              Msg(r).dest_core_id]) :
                              noc'.messages_received[
                                  Msg(r).dest_core_id][k] = r
              /\ noc'.messages_in_noc =
                     noc.messages_in_noc - Cardinality(removed)
              /\ noc'.message_density =
                     DensityWithout(noc.message_density, removed)]_vars

\* a call has removed a message and left one that is received later
C12_Witness ==
    /\ pc = "noc"
    /\ \E r \in Refs, q \in Refs :
          /\ Left(Msg(r))
          /\ RLe(Msg(r).received_timestamp, t_pop)
          /\ Msg(q).in_noc
          /\ RLt(t_pop, Msg(q).received_timestamp)

\* C13 as claimed: when schedule_messages returns every real message has
\* left the NoC: no in_noc flag is set, messages_in_noc is 0 and every
\* entry of message_density is 0
C13_Drained ==
    pc = "done" =>
        /\ \A r \in RealRefs : ~Msg(r).in_noc
        /\ noc.messages_in_noc = 0
        /\ \A l \in DOMAIN noc.message_density :
              noc.message_density[l] = R(0)

\* C13 as amended: every real message has entered the NoC, and on return
\* those still in it are the real message popped last and the real
\* messages received after the time of the last pop; messages_in_noc
\* counts them
C13_InFlightOnReturn ==
    pc = "done" =>
        /\ \A r \in RealRefs :
              /\ ~IsNegInf(Msg(r).received_timestamp)
              /\ Msg(r).in_noc <=>
                    \/ r = popped[Len(popped)]
                    \/ RLt(t_pop, Msg(r).received_timestamp)
        /\ noc.messages_in_noc = Cardinality(InNocRefs)

\* a run has returned with one message out of the NoC and one still in it
C13_Witness ==
    /\ pc = "done"
    /\ \E r \in RealRefs, q \in RealRefs :
          /\ Left(Msg(r))
          /\ Msg(q).in_noc
          /\ noc.messages_in_noc = 1

(***************************************************************************)
(* The pipeline: which side runs which unit                                *)
(***************************************************************************)
\* the synapses the core c has been sent in the timestep
SynapsesReceived(c) ==
    Len(messages_in[c]) * Len(SynapseAddresses(neurons, c))

BeforeBuffer(c, unit) ==
    CASE unit = "synapse" -> FALSE
      [] unit = "dendrite" ->
            arch.buffer_pos[c] = BUFFER_BEFORE_DENDRITE_UNIT
      [] unit = "soma" ->
            arch.buffer_pos[c] \in {BUFFER_BEFORE_DENDRITE_UNIT,
                                    BUFFER_BEFORE_SOMA_UNIT}
      [] unit = "axon_out" -> TRUE

\* C14: at the end of a timestep every unit of every core has run on one
\* side only. The synapse unit ran once for every synapse received and
\* never for a neuron; the dendrite unit ran once for every neuron if the
\* buffer is before the dendrite unit and else once for every synapse
\* received; the soma unit ran once for every neuron if the buffer is
\* before the dendrite or the soma unit and else once for every synapse
\* received; the axon-out unit ran once for every neuron and never for a
\* synapse.
C14_OneSide ==
    pipe_pc = "done" =>
        \A c \in PipeCoreIds :
            \A unit \in {"synapse", "dendrite", "soma", "axon_out"} :
                IF BeforeBuffer(c, unit)
                THEN /\ units[c].send[unit] = Len(neurons[c])
                     /\ units[c].receive[unit] = 0
                ELSE /\ units[c].send[unit] = 0
                     /\ units[c].receive[unit] = SynapsesReceived(c)

\* a timestep has ended for a core with the buffer before the soma unit
\* that has neurons and was sent synapses: its dendrite unit ran for them,
\* its soma unit for the neurons
C14_Witness ==
    /\ pipe_pc = "done"
    /\ \E c \in PipeCoreIds :
          /\ arch.buffer_pos[c] = BUFFER_BEFORE_SOMA_UNIT
          /\ Len(neurons[c]) = 2
          /\ SynapsesReceived(c) > 2
          /\ units[c].receive.dendrite = SynapsesReceived(c)
          /\ units[c].send.soma = 2

(***************************************************************************)
(* The pipeline: the messages of the process-neurons phase                 *)
(***************************************************************************)
\* the process-neurons phase of the timestep is over for the core c
NeuronsDone(c) ==
    \/ pipe_pc \in {"receive", "messages", "done"}
    \/ /\ pipe_pc = "neurons"
       /\ \E k \in 1..Len(PipeCores) : PipeCores[k] = c /\ k < pipe_at.core

RECURSIVE SumGenerationDelay(_)
SumGenerationDelay(q) ==
    IF q = <<>> THEN R(0)
    ELSE RAdd(q[1].generation_delay, SumGenerationDelay(Tail(q)))

\* C15 as claimed: once the process-neurons phase is over for a core, the
\* generation_delay of the messages in its queue, placeholder included,
\* add up to the latencies its units reported for its neurons in the
\* timestep, each counted once
C15_Conservation ==
    \A c \in PipeCoreIds :
        NeuronsDone(c) =>
            SumGenerationDelay(ts_messages[c]) = R(units[c].latency)

PlaceholdersOf(q) == { k \in 1..Len(q) : q[k].placeholder }
OnlyPlaceholders(q) == \A k \in 1..Len(q) : q[k].placeholder

\* C16 as claimed: after the process-neurons phase the queue of a core
\* holds at most one placeholder, which is its last message, and at the
\* end of a timestep in which no soma returned FIRED the queues hold
\* placeholders only
C16_NoFireOnlyPlaceholders ==
    /\ \A c \in PipeCoreIds :
          NeuronsDone(c) =>
              /\ Cardinality(PlaceholdersOf(ts_messages[c])) <= 1
              /\ PlaceholdersOf(ts_messages[c]) \subseteq
                    {Len(ts_messages[c])}
    /\ (pipe_pc = "done" /\ \A c \in PipeCoreIds : ~units[c].fired) =>
          \A c \in PipeCoreIds : OnlyPlaceholders(ts_messages[c])

\* C16 as the code has it: after the process-neurons phase the queue of a
\* core holds at most one placeholder, which is its last message; it holds
\* placeholders only if the axon-out unit found no neuron of the core with
\* a spike to send, which is so if no neuron of the core fired in the
\* timestep and the buffer is before the dendrite or the soma unit. With
\* the buffer before the axon-out unit the spikes sent are those of the
\* neurons that fired on the receive side of an earlier timestep.
C16_NoSpikeOnlyPlaceholders ==
    \A c \in PipeCoreIds :
        NeuronsDone(c) =>
            /\ Cardinality(PlaceholdersOf(ts_messages[c])) <= 1
            /\ PlaceholdersOf(ts_messages[c]) \subseteq {Len(ts_messages[c])}
            /\ ~units[c].flagged => OnlyPlaceholders(ts_messages[c])
            /\ (arch.buffer_pos[c] # BUFFER_BEFORE_AXON_OUT_UNIT
                   /\ ~units[c].fired) => ~units[c].flagged

\* the second timestep has ended and no neuron fired in it; the queue of a
\* core whose buffer is before the axon-out unit holds a spike message and,
\* last, its placeholder
C16_Witness ==
    /\ pipe_pc = "done"
    /\ pipe_at.timestep = 2
    /\ \A c \in PipeCoreIds : ~units[c].fired
    /\ \E c \in PipeCoreIds :
          /\ arch.buffer_pos[c] = BUFFER_BEFORE_AXON_OUT_UNIT
          /\ Len(ts_messages[c]) = 2
          /\ ~ts_messages[c][1].placeholder
          /\ ts_messages[c][2].placeholder

\* the process-neurons phase of a timestep is about to visit its first
\* neuron
TimestepStart ==
    pipe_pc = "neurons" /\ pipe_at.core = 1 /\ pipe_at.item = 1

\* C17 as claimed: once the process-neurons phase has visited the neurons
\* of a core and appended its placeholder, the accumulator of the core is 0
C17_AccumulatorZero ==
    \A c \in PipeCoreIds :
        NeuronsDone(c) => next_message_generation_delay[c] = 0

\* C17 as the code has it: once the process-neurons phase has visited the
\* neurons of a core, the accumulator still holds what the placeholder was
\* given: it is the generation_delay of the placeholder if the queue ends
\* with one and 0 if not. It is the reset at the start of the next timestep
\* that makes it 0 before the first neuron is visited, so that no latency
\* of a timestep gets into a message of the next.
C17_AccumulatorKept ==
    /\ \A c \in PipeCoreIds :
          NeuronsDone(c) =>
              LET q == ts_messages[c]
              IN  R(next_message_generation_delay[c]) =
                      IF q # <<>> /\ q[Len(q)].placeholder
                      THEN q[Len(q)].generation_delay
                      ELSE R(0)
    /\ TimestepStart =>
          \A c \in PipeCoreIds : next_message_generation_delay[c] = 0

\* the second timestep starts with the accumulator of core 0 at 0, after a
\* first timestep in which the soma of a neuron of core 0 was updated at a
\* latency in the process-neurons phase, which left the accumulator above 0
C17_Witness ==
    /\ TimestepStart
    /\ pipe_at.timestep = 2
    /\ next_message_generation_delay[0] = 0
    /\ arch.hw.soma.latency_access_neuron > 0
    /\ arch.buffer_pos[0] # BUFFER_BEFORE_AXON_OUT_UNIT
    /\ neurons[0][1].soma_last_updated = 1

(***************************************************************************)
(* The pipeline: the messages of the process-messages phase                *)
(***************************************************************************)
\* the distance between the tile the message comes from and the tile its
\* fields say it goes to
TileDistance(m) ==
    Abs(TileX(TileOf(m.src_core_id)) - m.dest_x)
    + Abs(TileY(TileOf(m.src_core_id)) - m.dest_y)

QueuedMessages ==
    UNION { { ts_messages[c][k] : k \in 1..Len(ts_messages[c]) } :
              c \in PipeCoreIds }

\* C18 as claimed: after the process-messages phase the hops of every
\* message, placeholder or not, are the distance between its source and
\* its destination tile, and its generation_delay and receive_delay are
\* not negative (no latency of the model is)
C18_AllHops ==
    pipe_pc = "done" =>
        \A m \in QueuedMessages :
            /\ m.hops = TileDistance(m)
            /\ RLe(R(0), m.generation_delay)
            /\ RLe(R(0), m.receive_delay)

\* C18 as the code has it: after the process-messages phase the hops of
\* every spike message are the distance between its source and its
\* destination tile; a placeholder, which is not received, keeps hops 0
\* and the destination fields of its construction. No generation_delay
\* and no receive_delay is negative.
C18_RealHops ==
    pipe_pc = "done" =>
        \A m \in QueuedMessages :
            /\ ~m.placeholder =>
                   /\ m.hops = TileDistance(m)
                   /\ m.dest_x = TileX(TileOf(m.dest_core_id))
                   /\ m.dest_y = TileY(TileOf(m.dest_core_id))
            /\ m.placeholder => m.hops = 0
            /\ RLe(R(0), m.generation_delay)
            /\ RLe(R(0), m.receive_delay)

\* a timestep has ended with a spike message that went two hops, east and
\* north, and was given a receive_delay, and with a placeholder of a core
\* that is not on tile (0,0)
C18_Witness ==
    /\ pipe_pc = "done"
    /\ \E m \in QueuedMessages :
          /\ ~m.placeholder
          /\ m.hops = 2
          /\ m.src_x # m.dest_x /\ m.src_y # m.dest_y
          /\ RLt(R(0), m.receive_delay)
    /\ \E m \in QueuedMessages :
          /\ m.placeholder
          /\ m.src_x # 0
          /\ RLt(R(0), m.generation_delay)

(***************************************************************************)
(* The pipeline and the scheduler: the latency of a timestep               *)
(***************************************************************************)
\* the queues of the timestep as schedule_messages is given them
TimestepMessages ==
    [c \in Cores |-> IF c \in PipeCoreIds THEN ts_messages[c] ELSE <<>>]

\* the messages as schedule_messages leaves them, and the value it returns
Scheduled == StableRun(StartStep(TimestepMessages))

\* C19 as claimed: a chip whose only neuron is on core 0, has no axon out
\* and fires in the process-neurons phase (buffer before the soma unit,
\* soma latencies above 0) ends the timestep with no spike message and
\* one placeholder, and the latency scheduled for the timestep is the
\* access, update and spiking latency of the soma, with no latency of the
\* axon-out unit
C19_FiredNoAxons ==
    ( /\ pipe_pc = "done"
      /\ Len(neurons[0]) = 1
      /\ neurons[2] = <<>>
      /\ neurons[0][1].axon_out_addresses = <<>>
      /\ arch.buffer_pos[0] = BUFFER_BEFORE_SOMA_UNIT
      /\ arch.hw.soma.latency_access_neuron > 0
      /\ units[0].fired ) =>
        /\ \A m \in QueuedMessages : m.placeholder
        /\ Len(ts_messages[0]) = 1
        /\ \A c \in PipeCoreIds \ {0} : ts_messages[c] = <<>>
        /\ Scheduled.last = R(arch.hw.soma.latency_access_neuron
                              + arch.hw.soma.latency_update_neuron
                              + arch.hw.soma.latency_spiking)

\* the spike messages of the timestep
RealQueued ==
    { r \in PipeCoreIds \X (1..4) :
        /\ r[2] <= Len(ts_messages[r[1]])
        /\ ~ts_messages[r[1]][r[2]].placeholder }

\* the timestep has ended with one spike message, which goes one hop east
OneMessageEast ==
    /\ pipe_pc = "done"
    /\ Cardinality(RealQueued) = 1
    /\ \A r \in RealQueued :
          LET m == ts_messages[r[1]][r[2]]
          IN  m.hops = 1 /\ m.dest_x = m.src_x + 1

\* C20 as claimed: the only spike message of a timestep, which goes one
\* hop east, is received no earlier than its generation_delay plus the
\* latency of a hop east plus the latency of the axon-in unit
C20_ReceivedAfterAxonIn ==
    OneMessageEast =>
        \A r \in RealQueued :
            LET m == Scheduled.msgs[r[1]][r[2]]
            IN  RLe(RAdd(m.generation_delay,
                         R(arch.hw.tile.latency_east_hop
                           + arch.hw.axon_in.latency_spike_message)),
                    m.received_timestamp)

\* C20 as the code has it: the only spike message of a timestep, which
\* goes one hop east, is sent at its generation_delay and received one
\* east hop latency later; the latency of the axon-in unit is part of its
\* receive_delay, which comes on top: it is processed, not received, no
\* earlier than generation_delay + east hop latency + axon-in latency
C20_ReceivedAfterHop ==
    OneMessageEast =>
        \A r \in RealQueued :
            LET m == Scheduled.msgs[r[1]][r[2]]
            IN  /\ m.sent_timestamp = m.generation_delay
                /\ m.received_timestamp =
                       RAdd(m.generation_delay,
                            R(arch.hw.tile.latency_east_hop))
                /\ m.processed_timestamp =
                       RAdd(m.received_timestamp, m.receive_delay)
                /\ RLe(R(arch.hw.axon_in.latency_spike_message),
                       m.receive_delay)
                /\ RLe(RAdd(m.generation_delay,
                            R(arch.hw.tile.latency_east_hop
                              + arch.hw.axon_in.latency_spike_message)),
                       m.processed_timestamp)

\* the timestep has ended with one spike message, one hop east, on a chip
\* whose axon-in unit and hops have a latency
C20_Witness ==
    /\ OneMessageEast
    /\ arch.hw.axon_in.latency_spike_message > 0
    /\ arch.hw.tile.latency_east_hop > 0
    /\ \E r \in RealQueued :
          RLt(R(0), Scheduled.msgs[r[1]][r[2]].received_timestamp)

(***************************************************************************)
(* The scheduler: the timestamps of a message                              *)
(***************************************************************************)
\* the step is the body of "if (!m.placeholder)" for the message m_cur
SendTaken == pc = "send" /\ pc' = "next"

\* C21: when a spike message is sent, its received_timestamp is the later
\* of core_finished_receiving of its destination as it was and of its
\* sent_timestamp plus the larger of its network_delay and of
\* messages_along_route * mean_in_flight_receive_delay / (hops + 1); its
\* processed_timestamp is its received_timestamp plus its receive_delay;
\* and core_finished_receiving of its destination becomes its
\* processed_timestamp
C21_Timestamps ==
    [][SendTaken =>
        LET m == messages'[m_cur[1]][m_cur[2]]
            dest == m.dest_core_id
            effective == RDiv(RMul(route_density',
                                   noc'.mean_in_flight_receive_delay),
                              R(m.hops + 1))
            earliest == RAdd(m.sent_timestamp,
                             FMax(m.network_delay, effective))
        IN  /\ m.received_timestamp =
                   FMax(noc.core_finished_receiving[dest], earliest)
            /\ m.processed_timestamp =
                   RAdd(m.received_timestamp, m.receive_delay)
            /\ noc'.core_finished_receiving[dest] = m.processed_timestamp
    ]_vars

\* a spike message has been sent to a core that was still receiving: it is
\* received when the core has finished, later than the network alone would
\* deliver it, and processed a receive_delay after that
C21_Witness ==
    /\ pc = "next"
    /\ ~Msg(m_cur).placeholder
    /\ RLt(R(0), Msg(m_cur).receive_delay)
    /\ RLt(RAdd(Msg(m_cur).sent_timestamp, Msg(m_cur).network_delay),
           Msg(m_cur).received_timestamp)
    /\ noc.core_finished_receiving[Msg(m_cur).dest_core_id] =
           RAdd(Msg(m_cur).received_timestamp, Msg(m_cur).receive_delay)

(***************************************************************************)
(* The scheduler: a burst of four messages                                 *)
(***************************************************************************)
\* the fourth message of the burst has been sent
FourthSent == pc = "next" /\ m_cur = <<0, 4>>

\* what the generation delays alone give the k-th message of core 0
RECURSIVE GeneratedAt(_)
GeneratedAt(k) ==
    IF k = 0 THEN R(0)
    ELSE RAdd(GeneratedAt(k - 1), messages[0][k].generation_delay)

\* C22 as claimed: the density along the route of the fourth message of the
\* burst is above (hops+1)*buffer_size, and the message is sent later than
\* the generation delays alone give
C22_FourthDelayed ==
    FourthSent =>
        /\ RLt(R(PathCapacity(Msg(m_cur))), route_density)
        /\ RLt(GeneratedAt(4), Msg(m_cur).sent_timestamp)

\* C22 as the code has it: each of the at most three messages still in the
\* NoC adds 1/(hops+2) = 1/5 to each of the four links of the route, so the
\* density along the route of the fourth message is at most 12/5, below
\* (hops+1)*buffer_size = 4; no message of the burst is delayed, each is
\* sent when the generation delays alone give
C22_NoBackPressure ==
    /\ FourthSent =>
          /\ PathCapacity(Msg(m_cur)) = 4
          /\ RLe(route_density, RDiv(R(12), R(5)))
    /\ pc \in {"next", "done"} =>
          \A k \in 1..4 :
              ~IsNegInf(messages[0][k].sent_timestamp) =>
                  messages[0][k].sent_timestamp = GeneratedAt(k)

\* the fourth message has been sent while the three before it were still in
\* the NoC, at the highest density the burst can reach
C22_Witness ==
    /\ FourthSent
    /\ noc.messages_in_noc = 4
    /\ route_density = RDiv(R(12), R(5))
    /\ Msg(m_cur).sent_timestamp = GeneratedAt(4)

\* the step at hand runs the dendrite unit of the i-th neuron of the core c:
\* on the send side when the buffer is before the dendrite unit, on the
\* receive side, after the synapse of the message, otherwise
DendriteAtSend(c, i) ==
    /\ pipe_pc = "neurons"
    /\ c = PipeCores[pipe_at.core]
    /\ i = pipe_at.item
    /\ i <= Len(neurons[c])
    /\ arch.buffer_pos[c] = BUFFER_BEFORE_DENDRITE_UNIT
    /\ pipe_at'.item = i + 1

DendriteAtReceive(c, i) ==
    /\ pipe_pc = "messages"
    /\ c = PipeCores[pipe_at.core]
    /\ pipe_at.item <= Len(messages_in[c])
    /\ i \in 1..Len(neurons[c])
    /\ arch.buffer_pos[c] # BUFFER_BEFORE_DENDRITE_UNIT
    /\ pipe_at'.item = pipe_at.item + 1

\* k updates of the dendrite model with no synapse, then one for each of
\* the b buffered synapses
Updates(k, b) == [x \in 1..(k + b) |-> x > k]

\* C23: when the dendrite unit of a neuron last updated at timestep t0 is
\* run at timestep t1, the dendrite model is updated with no synapse once
\* for each of the t1 - t0 timesteps after t0, all of it before the first
\* buffered synapse is integrated; every buffered synapse is integrated
\* once, the buffer is left empty and dendrite_last_updated is t1
C23_DendriteCatchUp ==
    [][\A c \in PipeCoreIds : \A i \in 1..Len(neurons[c]) :
          LET n == neurons[c][i]
              after == neurons'[c][i]
              t0 == n.dendrite_last_updated
              t1 == pipe_at.timestep
              buffered == Len(n.dendrite_input_synapses)
          IN  /\ DendriteAtSend(c, i) =>
                    /\ after.dendrite_model = Updates(t1 - t0, buffered)
                    /\ after.dendrite_last_updated = t1
                    /\ after.dendrite_input_synapses = <<>>
              /\ DendriteAtReceive(c, i) =>
                    /\ after.dendrite_model = Updates(t1 - t0, buffered + 1)
                    /\ after.dendrite_last_updated = t1
                    /\ after.dendrite_input_synapses = <<>>]_vars

\* a dendrite three timesteps behind was stepped three times and then
\* integrated the synapse of the message
C23_Witness ==
    /\ pipe_pc = "messages"
    /\ pipe_at.item > 1
    /\ arch.buffer_pos[0] = BUFFER_BEFORE_SOMA_UNIT
    /\ neurons[0][1].dendrite_model = <<FALSE, FALSE, FALSE, TRUE>>
    /\ neurons[0][1].dendrite_last_updated = pipe_at.timestep
    /\ pipe_at.timestep = 4

\* C24: a neuron with spikes forced fires in every timestep until none is
\* left, whatever it receives, and forced_spikes goes down by one with each
\* timestep: at the end of timestep t at most 2 - t forced spikes are left,
\* and a neuron that has any left has fired in the timestep
C24_ForcedEveryTimestep ==
    pipe_pc = "done" =>
        LET n == neurons[0][1]
        IN  /\ n.forced_spikes >= 0
            /\ n.forced_spikes > 0 =>
                  /\ n.forced_spikes + pipe_at.timestep <= 2
                  /\ n.status = FIRED

\* the step at hand is pipeline_process_neuron for the i-th neuron of the
\* core c
NeuronAtSend(c, i) ==
    /\ pipe_pc = "neurons"
    /\ c = PipeCores[pipe_at.core]
    /\ i = pipe_at.item
    /\ i <= Len(neurons[c])
    /\ pipe_at'.item = i + 1

\* C25: the axon-out unit, run for a neuron whose axon_out_input_spike is
\* set (by the soma in the same pipeline_process_neuron, or earlier on the
\* receive side), appends to the queue of the neuron's own core one spike
\* message per entry of axon_out_addresses, in the order of the entries,
\* counts as many packets out (units[c].accesses), and clears the flag; run
\* for a neuron whose flag is not set it emits nothing.  No other queue
\* changes.
C25_AxonOut ==
    [][\A c \in PipeCoreIds : \A i \in 1..Len(neurons[c]) :
          NeuronAtSend(c, i) =>
             LET n == neurons[c][i]
                 after == neurons'[c][i]
                 spike == \/ n.axon_out_input_spike
                          \/ /\ arch.buffer_pos[c] <= BUFFER_BEFORE_SOMA_UNIT
                             /\ after.status = FIRED
                 k == IF spike THEN Len(n.axon_out_addresses) ELSE 0
                 before == Len(ts_messages[c])
             IN  /\ ~after.axon_out_input_spike
                 /\ Len(ts_messages'[c]) = before + k
                 /\ SubSeq(ts_messages'[c], 1, before) = ts_messages[c]
                 /\ \A a \in 1..k :
                       LET m == ts_messages'[c][before + a]
                       IN  /\ ~m.placeholder
                           /\ m.src_core_id = c
                           /\ m.dest_core_id = n.axon_out_addresses[a]
                 /\ units'[c].accesses = units[c].accesses + k
                 /\ \A d \in PipeCoreIds \ {c} :
                       /\ ts_messages'[d] = ts_messages[d]
                       /\ units'[d].accesses = units[d].accesses]_vars

\* the second neuron of core 0 has fired after the first, which has two
\* axons out: three messages in the queue of core 0, in axon order
C25_Witness ==
    /\ pipe_pc = "neurons"
    /\ pipe_at.core = 1
    /\ pipe_at.item = 3
    /\ neurons[0][1].axon_out_addresses = <<0, 3>>
    /\ neurons[0][2].axon_out_addresses = <<2>>
    /\ Len(ts_messages[0]) = 3
    /\ ts_messages[0][1].dest_core_id = 0
    /\ ts_messages[0][2].dest_core_id = 3
    /\ ts_messages[0][3].dest_core_id = 2
    /\ units[0].accesses = 3
    /\ ~neurons[0][1].axon_out_input_spike
    /\ ~neurons[0][2].axon_out_input_spike

\* the chip before the timestep of the workers, from what a timestep leaves
\* as it was: the mapping of the neurons and their axons out
BeforeWorkers ==
    [neurons |-> [c \in PipeCoreIds |->
                     [i \in 1..Len(neurons[c]) |->
                         MappedNeuron(neurons[c][i].axon_out_addresses)]],
     next_message_generation_delay |-> [c \in PipeCoreIds |-> 0],
     ts_messages |-> [c \in PipeCoreIds |-> <<>>],
     messages_in |-> [c \in PipeCoreIds |-> <<>>],
     units |-> [c \in PipeCoreIds |-> NoCalls],
     tiles |-> [t \in Tiles |-> NoHops],
     timestep |-> pipe_at.timestep]

\* the serial order: pipeline_process_neurons, then the first loop of
\* pipeline_process_messages, then its second loop
SerialNeurons == pipeline_process_neurons(BeforeWorkers, 1, 1)
SerialReceived == ReceiveLoop(SerialNeurons, 1, 1)
SerialTimestep == MessagesLoop(SerialReceived, 1, 1)

\* the serial order of the second loop on the receive lists as the workers
\* of the first loop have left them
SerialOnReceived ==
    MessagesLoop([SerialReceived EXCEPT !.messages_in = messages_in,
                                        !.tiles = tiles], 1, 1)

\* the neurons, accumulators, queues, receive lists and counters of every
\* core are the same in p and q
SameChip(p, q) ==
    \A c \in PipeCoreIds :
       /\ p.neurons[c] = q.neurons[c]
       /\ p.next_message_generation_delay[c] =
             q.next_message_generation_delay[c]
       /\ p.ts_messages[c] = q.ts_messages[c]
       /\ p.messages_in[c] = q.messages_in[c]
       /\ p.units[c] = q.units[c]
       /\ p.tiles[TileOf(c)] = q.tiles[TileOf(c)]

\* the worker of core c takes a step of its loop
WorkerStep(c) == pipe_at'.item[c] = pipe_at.item[c] + 1

\* all that belongs to the cores other than c is as it was
OthersKept(c) ==
    \A d \in PipeCoreIds \ {c} :
       /\ neurons'[d] = neurons[d]
       /\ next_message_generation_delay'[d] = next_message_generation_delay[d]
       /\ units'[d] = units[d]
       /\ messages_in'[d] = messages_in[d]

\* the queues are as they were but for the receive_delay of the message ref
QueuesKeptBut(ref) ==
    \A d \in PipeCoreIds : \A k \in 1..Len(ts_messages[d]) :
       /\ Len(ts_messages'[d]) = Len(ts_messages[d])
       /\ IF <<d, k>> = ref
          THEN ts_messages'[d][k] =
                  [ts_messages[d][k] EXCEPT
                      !.receive_delay = ts_messages'[d][k].receive_delay]
          ELSE ts_messages'[d][k] = ts_messages[d][k]

\* C26 as stated: with one worker per core in the loop of
\* pipeline_process_neurons and in both loops of pipeline_process_messages,
\* every interleaving ends with the queues, the receive lists, the neurons
\* and the counters of the serial order
C26_SameAsSerial ==
    pipe_pc = "worker_done" => SameChip(PipeState, SerialTimestep)

\* C26, amended: the workers of pipeline_process_neurons and of the second
\* loop of pipeline_process_messages write no state of another core (in the
\* second loop: nothing but the receive_delay of the message at hand, which
\* is on one receive list only), and every interleaving of them gives what
\* the serial order gives; the first loop is left out, as its workers write
\* the receive list of the core a message goes to
C26_OwnStateOnly ==
    /\ [][\A c \in PipeCoreIds :
             /\ (pipe_pc = "worker_neurons" /\ WorkerStep(c)) =>
                   /\ OthersKept(c)
                   /\ messages_in' = messages_in
                   /\ \A d \in PipeCoreIds \ {c} :
                         ts_messages'[d] = ts_messages[d]
             /\ (pipe_pc = "worker_messages" /\ WorkerStep(c)) =>
                   /\ OthersKept(c)
                   /\ messages_in' = messages_in
                   /\ next_message_generation_delay' =
                         next_message_generation_delay
                   /\ QueuesKeptBut(messages_in[c][pipe_at.item[c]])]_vars
    /\ [](/\ (pipe_pc = "worker_receive"
              /\ \A c \in PipeCoreIds : pipe_at.item[c] = 1) =>
                 SameChip(PipeState, SerialNeurons)
          /\ pipe_pc = "worker_messages" =>
                \A c, d \in PipeCoreIds :
                   \A k \in 1..Len(messages_in[c]) :
                      \A l \in 1..Len(messages_in[d]) :
                         messages_in[c][k] = messages_in[d][l] =>
                            c = d /\ k = l
          /\ pipe_pc = "worker_done" =>
                SameChip(PipeState, SerialOnReceived))

\* the workers of core 0 and of core 2 have both sent a message to core 0,
\* whose receive list has them in another order than the serial one, and
\* core 0, with the buffer before the soma unit, has run its dendrite unit
\* on the receive side
C26_Witness ==
    /\ pipe_pc = "worker_done"
    /\ arch.buffer_pos[0] = BUFFER_BEFORE_SOMA_UNIT
    /\ units[0].receive.dendrite = 2
    /\ messages_in[0] = <<<<2, 1>>, <<0, 1>>>>
    /\ SameChip(PipeState, SerialOnReceived)

\* the map of factories of a unit
FactoriesOf(unit) ==
    IF unit = "synapse" THEN plugin_create_synapse
    ELSE IF unit = "dendrite" THEN plugin_create_dendrite
    ELSE plugin_create_soma

\* C27: after a request has failed to load its plugin (the library cannot
\* be opened, or the factory symbol is missing) the model name is not in
\* the map of factories, and no request ever calls a missing factory
C27_FailedLoadNotCached ==
    plugin_result.unit # "none" =>
        /\ plugin_result.thrown \in {"Could not load library",
                                     "Could not load symbol"} =>
              plugin_result.model_name
                  \notin DOMAIN FactoriesOf(plugin_result.unit)
        /\ plugin_result.factory # nullptr

\* C28: the times t passed to schedule_update_noc, the sent_timestamp of
\* each message as it is popped, never go down from one pop to the next
C28_PopTimesOrdered ==
    [][(pc = "pop" /\ pc' \in {"send", "next"}) =>
          /\ t_pop' = Msg(m_cur').sent_timestamp
          /\ RLe(t_pop, t_pop')]_vars

\* back-pressure has sent a message popped earlier later than the time at
\* which the latest message is popped
C28_Witness ==
    /\ Len(popped) >= 2
    /\ pc \in {"send", "next"}
    /\ m_cur = popped[Len(popped)]
    /\ ~IsNegInf(t_pop)
    /\ \E j \in 1..(Len(popped) - 1) :
          /\ ~Msg(popped[j]).placeholder
          /\ RLt(t_pop, Msg(popped[j]).sent_timestamp)

\* the real messages scheduled so far, in the order they were scheduled
ScheduledReal ==
    SelectSeq(popped, LAMBDA ref : /\ ~Msg(ref).placeholder
                                   /\ ~IsNegInf(Msg(ref).processed_timestamp))

\* C29: core_finished_receiving of a core never goes down, and of two
\* real messages to the same core the one scheduled later is received no
\* earlier than the one scheduled before it is processed
C29_ReceiveSerialized ==
    /\ [][\A c \in DOMAIN noc.core_finished_receiving :
             RLe(noc.core_finished_receiving[c],
                 noc'.core_finished_receiving[c])]_vars
    /\ [](\A i, j \in 1..Len(ScheduledReal) :
             (/\ i < j
              /\ Msg(ScheduledReal[i]).dest_core_id =
                    Msg(ScheduledReal[j]).dest_core_id) =>
                RLe(Msg(ScheduledReal[i]).processed_timestamp,
                    Msg(ScheduledReal[j]).received_timestamp))

\* a message has waited for the core to finish with the message before it:
\* it is received when that one is processed, later than the NoC alone
\* would have delivered it
C29_Witness ==
    \E i, j \in 1..Len(ScheduledReal) :
       LET a == Msg(ScheduledReal[i])
           b == Msg(ScheduledReal[j])
       IN  /\ j = i + 1
           /\ a.dest_core_id = b.dest_core_id
           /\ a.src_core_id # b.src_core_id
           /\ b.received_timestamp = a.processed_timestamp
           /\ RLt(RAdd(b.sent_timestamp, b.network_delay),
                  b.received_timestamp)
           /\ RLt(a.received_timestamp, a.processed_timestamp)

\* the links of the route of m: the out-link of the source core, one link
\* per hop in the direction travelled at the tile it leaves (x first, then
\* y), and the in-link of the destination core
xy_route(m) ==
    LET xdir == IF m.src_x < m.dest_x THEN east ELSE west
        ydir == IF m.src_y < m.dest_y THEN north ELSE south
        xs == { x \in 0..(scheduler.noc_width - 1) :
                  IF m.src_x < m.dest_x
                  THEN (m.src_x <= x) /\ (x < m.dest_x)
                  ELSE (m.dest_x < x) /\ (x <= m.src_x) }
        ys == { y \in 0..(scheduler.noc_height - 1) :
                  IF m.src_y < m.dest_y
                  THEN (m.src_y <= y) /\ (y < m.dest_y)
                  ELSE (m.dest_y < y) /\ (y <= m.src_y) }
    IN  {idx(m.src_x, m.src_y, ndirections + m.src_core_offset)}
            \cup { idx(x, m.src_y, xdir) : x \in xs }
            \cup { idx(m.dest_x, y, ydir) : y \in ys }
            \cup {idx(m.dest_x, m.dest_y, ndirections + m.dest_core_offset)}

\* the sum of 1/(hops+2) over a set of references
RECURSIVE SumAdjust(_)
SumAdjust(S) ==
    IF S = {} THEN R(0)
    ELSE LET r == CHOOSE x \in S : TRUE
         IN  RAdd(Adjust(Msg(r).hops), SumAdjust(S \ {r}))

\* the messages in the NoC whose route uses the link
UsingLink(link) == { r \in InNocRefs : link \in xy_route(Msg(r)) }

\* C30: at every scheduler step each message_density entry equals the sum
\* of 1/(hops+2) over the messages in the NoC whose route uses that link,
\* so that a message that entered and left the NoC leaves every entry at
\* the value it would have had without that message
C30_DensityExact ==
    pc # "pipeline" =>
        \A link \in DOMAIN noc.message_density :
            noc.message_density[link] = SumAdjust(UsingLink(link))

\* the entries are those of the messages in the NoC over the links
\* schedule_update_noc_message_counts walks: a message that left has taken
\* its share from every entry it had added to
C30_Reversible ==
    pc # "pipeline" =>
        DensityWithout(noc.message_density, InNocRefs)
            = [link \in DOMAIN noc.message_density |-> R(0)]

\* ---------------------------------------------------------------------
\* The two route walks of schedule.cpp over a mesh with two cores per
\* tile: one message between any two cores enters the NoC, its route is
\* summed, and it leaves.

\* a 3 x 2 mesh of tiles with two cores each
RouteScheduler ==
    [noc_width |-> 3, noc_height |-> 2, core_count |-> 12,
     max_cores_per_tile |-> 2, buffer_size |-> 0]

InitRoutes ==
    /\ scheduler = RouteScheduler
    /\ messages = [c \in Cores |-> <<>>]
    /\ pc = "route"
    /\ messages_sent_per_core = [c \in Cores |-> <<>>]
    /\ priority = <<>>
    /\ noc = EmptyNoc
    /\ last_timestamp = R(0)
    /\ m_cur = NoRef
    /\ t_pop = NegInf
    /\ route_density = R(0)
    /\ popped = <<>>
    /\ pushed = <<>>
    /\ result = NegInf
    /\ ListIdle
    /\ PluginIdle
    /\ PipeIdle

\* schedule_messages, 106-124: the message enters the NoC
RouteEnter ==
    /\ pc = "route"
    /\ TotalMessages = 0
    /\ \E core \in Cores, dest \in Cores :
          LET m == [SpikeMessage(core, dest, 0, 0) EXCEPT
                          !.sent_timestamp = R(0),
                          !.received_timestamp = R(1),
                          !.processed_timestamp = R(0),
                          !.in_noc = TRUE]
              ref == <<core, 1>>
              n1 == [noc EXCEPT !.messages_received[dest] = Append(@, ref)]
          IN  /\ messages' = [messages EXCEPT ![core] = Append(@, m)]
              /\ noc' = schedule_update_noc_message_counts(m, n1, TRUE)
              /\ m_cur' = ref
    /\ UNCHANGED <<list_vars, pipe_vars, plugin_vars,
                   scheduler, pc, messages_sent_per_core, priority,
                   last_timestamp, t_pop, route_density, popped, pushed,
                   result>>

\* schedule_messages, 98-99: the route of the message in flight is summed
RouteSum ==
    /\ pc = "route"
    /\ m_cur # NoRef
    /\ route_density' = schedule_calculate_messages_along_route(Msg(m_cur), noc)
    /\ UNCHANGED <<list_vars, pipe_vars, plugin_vars,
                   scheduler, pc, messages, messages_sent_per_core, priority,
                   noc, last_timestamp, m_cur, t_pop, popped, pushed,
                   result>>

\* schedule_update_noc at the time the message is received
RouteLeave ==
    /\ pc = "route"
    /\ m_cur # NoRef
    /\ Msg(m_cur).in_noc
    /\ LET upd == schedule_update_noc(R(1), messages, noc)
       IN  /\ messages' = upd.msgs
           /\ noc' = upd.noc
           /\ t_pop' = R(1)
    /\ UNCHANGED <<list_vars, pipe_vars, plugin_vars,
                   scheduler, pc, messages_sent_per_core, priority,
                   last_timestamp, m_cur, route_density, popped, pushed,
                   result>>

NextRoutes ==
    \/ RouteEnter
    \/ RouteSum
    \/ RouteLeave

SpecRoutes == InitRoutes /\ [][NextRoutes]_vars

\* the set of the entries of a list of link indices
LinkSet(route) == { route[i] : i \in DOMAIN route }

\* C31: for every source tile, destination tile and source core offset,
\* the link indices schedule_calculate_messages_along_route sums are exactly
\* those schedule_update_noc_message_counts adjusts for the same message,
\* every one of them an index of message_density; read back while the
\* message is alone in the NoC, the sum is what the update added
C31_SameLinks ==
    \A r \in RealRefs :
        LET m == Msg(r)
        IN  /\ LinkSet(CalculateRoute(m)) = LinkSet(UpdateRoute(m))
            /\ LinkSet(CalculateRoute(m)) \subseteq DOMAIN noc.message_density
            /\ LinkSet(UpdateRoute(m)) \subseteq DOMAIN noc.message_density
            /\ m.in_noc =>
                  schedule_calculate_messages_along_route(m, noc)
                      = RMul(R(Len(UpdateRoute(m))), Adjust(m.hops))

\* a message from the second core of a tile has crossed two columns and one
\* row to the second core of another tile, and its route has been summed
C31_Witness ==
    /\ pc = "route"
    /\ m_cur # NoRef
    /\ Msg(m_cur).in_noc
    /\ Msg(m_cur).src_core_offset = 1
    /\ Msg(m_cur).dest_core_offset = 1
    /\ Msg(m_cur).hops = 3
    /\ route_density = RDiv(R(4), R(5))

\* a step of the loop iteration of a placeholder: its pop, or what
\* follows up to the next pop
PlaceholderIteration ==
    /\ pc \in {"pop", "send", "next"}
    /\ pc' # "done"
    /\ m_cur' # NoRef
    /\ Msg(m_cur').placeholder

\* the messages schedule_update_noc(t) takes out of the NoC
Removed(t) ==
    { r \in Refs : Msg(r).in_noc /\ RLe(Msg(r).received_timestamp, t) }

\* C32 as stated: scheduling a placeholder leaves message_density,
\* messages_in_noc, mean_in_flight_receive_delay and every
\* core_finished_receiving entry unchanged, and its in_noc flag false
C32_NocUntouched ==
    [][PlaceholderIteration =>
          /\ noc'.message_density = noc.message_density
          /\ noc'.messages_in_noc = noc.messages_in_noc
          /\ noc'.mean_in_flight_receive_delay
                 = noc.mean_in_flight_receive_delay
          /\ noc'.core_finished_receiving = noc.core_finished_receiving
          /\ ~messages'[m_cur'[1]][m_cur'[2]].in_noc]_vars

\* C32: scheduling a placeholder never puts it in the NoC: apart from what
\* schedule_update_noc takes out at its pop (the messages received by its
\* sent_timestamp, with their shares of message_density, their counts and
\* their list entries), the NoC is unchanged, no core_finished_receiving
\* entry changes, the placeholder keeps in_noc false and no received
\* timestamp; it raises last_timestamp to its sent_timestamp at least, and
\* the next message of its source core, if any, is sent at its
\* sent_timestamp plus that message's generation_delay
C32_PlaceholderFrame ==
    /\ [][PlaceholderIteration =>
            LET p == m_cur'
                t == Msg(p).sent_timestamp
                removed == IF pc = "pop" THEN Removed(t) ELSE {}
                q == messages_sent_per_core[Msg(p).src_core_id]
                next == IF pc = "next" /\ q # <<>> THEN {Head(q)} ELSE {}
            IN  /\ noc'.message_density
                       = DensityWithout(noc.message_density, removed)
                /\ noc'.messages_in_noc
                       = noc.messages_in_noc - Cardinality(removed)
                /\ removed = {} =>
                       noc'.mean_in_flight_receive_delay
                           = noc.mean_in_flight_receive_delay
                /\ noc'.core_finished_receiving = noc.core_finished_receiving
                /\ \A c \in Cores :
                       noc'.messages_received[c]
                           = SelectSeq(noc.messages_received[c],
                                       LAMBDA r : r \notin removed)
                /\ messages'[p[1]][p[2]] = Msg(p)
                /\ \A r \in removed :
                       messages'[r[1]][r[2]]
                           = [Msg(r) EXCEPT !.in_noc = FALSE]
                /\ \A r \in next :
                       messages'[r[1]][r[2]]
                           = [Msg(r) EXCEPT !.sent_timestamp =
                                 RAdd(t, Msg(r).generation_delay)]
                /\ \A r \in Refs \ (removed \cup next) :
                       messages'[r[1]][r[2]] = Msg(r)
                /\ RLe(t, last_timestamp')
                /\ RLe(last_timestamp, last_timestamp')
                /\ next = {} => last_timestamp' = FMax(last_timestamp, t)]_vars
    /\ [](\A r \in Refs :
             Msg(r).placeholder =>
                 /\ ~Msg(r).in_noc
                 /\ IsNegInf(Msg(r).received_timestamp)
                 /\ IsNegInf(Msg(r).processed_timestamp))

\* the pop of a placeholder has taken the message sent before it out of
\* the NoC
C32_Witness ==
    /\ pc = "next"
    /\ Len(popped) = 2
    /\ Msg(m_cur).placeholder
    /\ Left(Msg(popped[1]))
    /\ noc.messages_in_noc = 0

\* whether the message has entered the priority queue
Entered(ref) == ~IsNegInf(Msg(ref).sent_timestamp)

\* whether the message is in the priority queue, or popped and not yet sent
Waiting(ref) ==
    \/ \E i \in DOMAIN priority : priority[i] = ref
    \/ (m_cur = ref /\ pc = "send")

\* the sent_timestamp with which the message enters the priority queue:
\* its generation_delay after the final sent_timestamp of its predecessor
EntryTime(ref) ==
    RAdd(IF ref[2] = 1 THEN R(0)
         ELSE messages[ref[1]][ref[2] - 1].sent_timestamp,
         Msg(ref).generation_delay)

\* C33: the first message of a core enters the priority queue with
\* sent_timestamp = generation_delay; every later one enters, after its
\* predecessor was popped, with the predecessor's final sent_timestamp
\* (back-pressure delay included) plus its own generation_delay; nothing
\* moves it before it is sent, and sending can only delay it, so a delay
\* of one message delays every later message of its core as much
C33_SequentialSends ==
    pc # "pipeline" =>
        \A r \in Refs :
            Entered(r) =>
                /\ r[2] > 1 =>
                      /\ Entered(<<r[1], r[2] - 1>>)
                      /\ ~Waiting(<<r[1], r[2] - 1>>)
                /\ RLe(EntryTime(r), Msg(r).sent_timestamp)
                /\ Waiting(r) => Msg(r).sent_timestamp = EntryTime(r)

\* a message was delayed by back-pressure, and its successor has entered
\* the priority queue that much later
C33_Witness ==
    \E r \in Refs :
        /\ r[2] > 1
        /\ Waiting(r)
        /\ RLt(EntryTime(<<r[1], r[2] - 1>>),
               messages[r[1]][r[2] - 1].sent_timestamp)
        /\ Msg(r).sent_timestamp = EntryTime(r)

\* C34: when a neuron fires in the process-neurons phase, the
\* generation_delay of the first spike message it emits is the latency
\* accumulated on its core since the previous message, the latency of the
\* neuron's own dendrite and soma update of this timestep included, plus
\* the axon-out access latency
C34_OwnLatencyInFirstMessage ==
    [][\A c \in PipeCoreIds : \A i \in 1..Len(neurons[c]) :
          (/\ NeuronAtSend(c, i)
           /\ arch.buffer_pos[c] <= BUFFER_BEFORE_SOMA_UNIT
           /\ neurons'[c][i].status = FIRED
           /\ neurons[c][i].axon_out_addresses # <<>>) =>
             LET own == (units'[c].latency - units[c].latency)
                            - arch.hw.axon_out.latency_access
                 first == ts_messages'[c][Len(ts_messages[c]) + 1]
             IN  first.generation_delay =
                     R(next_message_generation_delay[c] + own
                       + arch.hw.axon_out.latency_access)]_vars

\* the step runs the soma unit of neuron i of core c on the send side
SomaAtSend(c, i) ==
    /\ NeuronAtSend(c, i)
    /\ arch.buffer_pos[c] <= BUFFER_BEFORE_SOMA_UNIT

\* the step runs the soma unit of neuron i of core c for a message received
SomaAtReceive(c, i) ==
    /\ pipe_pc = "messages"
    /\ c = PipeCores[pipe_at.core]
    /\ pipe_at.item <= Len(messages_in[c])
    /\ i \in 1..Len(neurons[c])
    /\ arch.buffer_pos[c] = BUFFER_BEFORE_AXON_OUT_UNIT
    /\ pipe_at'.item = pipe_at.item + 1

\* what the step adds to the receive_delay of the message it processes
ReceiveLatency(c) ==
    LET ref == messages_in[c][pipe_at.item]
    IN  RSub(ts_messages'[ref[1]][ref[2]].receive_delay,
             ts_messages[ref[1]][ref[2]].receive_delay)

\* C35: a run of pipeline_process_soma at timestep ts updates the soma
\* model ts - soma_last_updated times and leaves soma_last_updated = ts; a
\* second run for the same neuron in the same timestep updates it zero
\* times, adds no latency and changes no status, flag or forced_spikes; no
\* step that is not a run of the soma unit touches them.  So the soma model
\* is updated once for each timestep and soma_last_updated never exceeds
\* the current timestep
C35_SomaCatchUp ==
    /\ [][\A c \in PipeCoreIds : \A i \in 1..Len(neurons[c]) :
            LET n == neurons[c][i]
                after == neurons'[c][i]
                ts == pipe_at.timestep
                behind == ts - n.soma_last_updated
            IN  /\ (SomaAtSend(c, i) \/ SomaAtReceive(c, i)) =>
                      /\ after.soma_model = n.soma_model + behind
                      /\ after.soma_last_updated = ts
                      /\ behind = 0 =>
                            /\ after.status = n.status
                            /\ after.forced_spikes = n.forced_spikes
                            /\ SomaAtReceive(c, i) =>
                                  after.axon_out_input_spike
                                      = n.axon_out_input_spike
                /\ (/\ SomaAtReceive(c, i)
                    /\ \A j \in 1..Len(neurons[c]) :
                          neurons[c][j].soma_last_updated = ts) =>
                      /\ ReceiveLatency(c) =
                             R(arch.hw.axon_in.latency_spike_message
                               + Len(neurons[c])
                                     * arch.hw.synapse.latency_spike_op)
                      /\ units'[c].fired = units[c].fired
                /\ ~(SomaAtSend(c, i) \/ SomaAtReceive(c, i)) =>
                      /\ after.soma_model = n.soma_model
                      /\ after.soma_last_updated = n.soma_last_updated
                      /\ after.status = n.status
                      /\ after.forced_spikes = n.forced_spikes]_vars
    /\ [](\A c \in PipeCoreIds : \A i \in 1..Len(neurons[c]) :
             /\ neurons[c][i].soma_last_updated <= pipe_at.timestep
             /\ neurons[c][i].soma_model = neurons[c][i].soma_last_updated)

\* in the third timestep or later, the soma unit of the neuron of a core
\* buffered before the axon-out unit has run for two messages of the
\* timestep: the soma model was updated once for each timestep, and fired
C35_Witness ==
    /\ pipe_pc = "messages"
    /\ pipe_at.timestep >= 3
    /\ arch.buffer_pos[0] = BUFFER_BEFORE_AXON_OUT_UNIT
    /\ PipeCores[pipe_at.core] = 0
    /\ units[0].receive.soma = 2
    /\ neurons[0][1].soma_model = pipe_at.timestep
    /\ neurons[0][1].status = FIRED
    /\ arch.hw.soma.latency_access_neuron > 0

\* the step processes a message received by core c, whose synapse unit
\* buffers one synapse for each neuron of the core
SynapseAtReceive(c) ==
    /\ pipe_pc = "messages"
    /\ c = PipeCores[pipe_at.core]
    /\ pipe_at.item <= Len(messages_in[c])
    /\ pipe_at'.item = pipe_at.item + 1

\* C36: every synapse the synapse unit appends to a neuron's
\* dendrite_input_synapses is passed to the dendrite model once, in the
\* order of arrival, by the next run of pipeline_process_dendrite for the
\* neuron; the buffer is empty after every such run, in all three buffer
\* positions, and no other step changes it
C36_SynapsesConserved ==
    /\ [][\A c \in PipeCoreIds : \A i \in 1..Len(neurons[c]) :
            LET n == neurons[c][i]
                after == neurons'[c][i]
                arrived == units[c].receive.synapse + i
            IN  /\ DendriteAtSend(c, i) =>
                      /\ after.dendrite_inputs = n.dendrite_input_synapses
                      /\ after.dendrite_input_synapses = <<>>
                /\ (SynapseAtReceive(c) /\ DendriteAtReceive(c, i)) =>
                      /\ after.dendrite_inputs =
                             Append(n.dendrite_input_synapses, arrived)
                      /\ after.dendrite_input_synapses = <<>>
                /\ (SynapseAtReceive(c) /\ ~DendriteAtReceive(c, i)) =>
                      /\ after.dendrite_input_synapses =
                             Append(n.dendrite_input_synapses, arrived)
                      /\ after.dendrite_inputs = n.dendrite_inputs
                /\ ~(DendriteAtSend(c, i) \/ SynapseAtReceive(c)) =>
                      /\ after.dendrite_input_synapses
                             = n.dendrite_input_synapses
                      /\ after.dendrite_inputs = n.dendrite_inputs]_vars
    /\ [](\A c \in PipeCoreIds : \A i \in 1..Len(neurons[c]) :
             arch.buffer_pos[c] # BUFFER_BEFORE_DENDRITE_UNIT =>
                 neurons[c][i].dendrite_input_synapses = <<>>)

\* in the second timestep the dendrite unit of a neuron of a core buffered
\* before the dendrite unit has integrated, in their order, the synapses
\* of the two messages of the first timestep
C36_Witness ==
    /\ pipe_pc = "neurons"
    /\ pipe_at.timestep = 2
    /\ arch.buffer_pos[0] = BUFFER_BEFORE_DENDRITE_UNIT
    /\ Len(neurons[0]) = 2
    /\ neurons[0][1].dendrite_inputs = <<1, 3>>
    /\ neurons[0][1].dendrite_input_synapses = <<>>
    /\ neurons[0][2].dendrite_input_synapses = <<2, 4>>

\* the step that starts the next timestep
NextTimestep == pipe_at'.timestep = pipe_at.timestep + 1

\* C37: on a core buffered before the dendrite or the soma unit, a message
\* received in timestep t counts in the post-neuron's spike_count without
\* any update of its soma in t; the count is as many as the messages of t
\* when timestep t+1 starts, the soma update of the process-neurons phase of
\* t+1 is made with it, and that phase leaves spike_count = 0
C37_SeenNextTimestep ==
    [][\A c \in PipeCoreIds : \A i \in 1..Len(neurons[c]) :
          arch.buffer_pos[c] <= BUFFER_BEFORE_SOMA_UNIT =>
             LET n == neurons[c][i]
                 after == neurons'[c][i]
             IN  /\ SynapseAtReceive(c) =>
                       /\ after.spike_count = n.spike_count + 1
                       /\ after.soma_model = n.soma_model
                       /\ after.soma_spike_count = n.soma_spike_count
                       /\ after.status = n.status
                       /\ n.soma_last_updated = pipe_at.timestep
                 /\ NextTimestep =>
                       /\ n.spike_count = Len(messages_in[c])
                       /\ after.spike_count = n.spike_count
                 /\ NeuronAtSend(c, i) =>
                       /\ after.soma_model = n.soma_model + 1
                       /\ after.soma_spike_count = n.spike_count
                       /\ after.spike_count = 0
                 /\ ~(SynapseAtReceive(c) \/ NeuronAtSend(c, i)) =>
                       after.spike_count = n.spike_count]_vars

\* in the second timestep the soma of a neuron of a core buffered before
\* the soma unit was updated with the two spikes received in the first
C37_Witness ==
    /\ pipe_pc = "neurons"
    /\ pipe_at.timestep = 2
    /\ arch.buffer_pos[0] = BUFFER_BEFORE_SOMA_UNIT
    /\ neurons[0][1].soma_model = 2
    /\ neurons[0][1].soma_spike_count = 2
    /\ neurons[0][1].spike_count = 0

\* C38: no firing is lost: every time the soma makes a neuron fire, its
\* spike messages are sent once by an axon-out step before it can fire
\* again, so that the neuron has fired as often as its messages were sent,
\* but for the one firing whose messages are still to be sent
\* (axon_out_input_spike), in every buffer position and when the soma
\* catches up over several timesteps
C38_NoFiringLost ==
    \A c \in PipeCoreIds : \A i \in 1..Len(neurons[c]) :
        neurons[c][i].spikes_pending =
            IF neurons[c][i].axon_out_input_spike THEN 1 ELSE 0

(***************************************************************************)
(* The hop counters of the tiles (sim.c): any sequence of calls of         *)
(* sim_estimate_network_costs and of sim_reset_measurements on a mesh of   *)
(* two by two tiles.  pipe_at.calls holds the calls since the last reset:  *)
(* the source tile, the destination tile and the latency returned.         *)
(***************************************************************************)
InitTiles ==
    /\ scheduler \in SchedulerConfigs
    /\ scheduler.buffer_size = 0
    /\ messages = [c \in Cores |-> <<>>]
    /\ pc = "pipeline"
    /\ messages_sent_per_core = [c \in Cores |-> <<>>]
    /\ priority = <<>>
    /\ noc = EmptyNoc
    /\ last_timestamp = R(0)
    /\ m_cur = NoRef
    /\ t_pop = NegInf
    /\ route_density = 0
    /\ popped = <<>>
    /\ pushed = <<>>
    /\ result = NegInf
    /\ ListIdle
    /\ PluginIdle
    /\ arch = [buffer_pos |->
                   [c \in PipeCoreIds |-> BUFFER_BEFORE_DENDRITE_UNIT],
               hw |-> Hardware(1)]
    /\ neurons = [c \in PipeCoreIds |-> <<>>]
    /\ next_message_generation_delay = [c \in PipeCoreIds |-> 0]
    /\ ts_messages = [c \in PipeCoreIds |-> <<>>]
    /\ messages_in = [c \in PipeCoreIds |-> <<>>]
    /\ pipe_pc = "estimate"
    /\ pipe_at = [calls |-> <<>>]
    /\ units = [c \in PipeCoreIds |-> NoCalls]
    /\ tiles = [t \in Tiles |-> NoHops]

\* sim_receive_messages, 193-194: one call of sim_estimate_network_costs
\* for a message of a neuron of the tile src to an axon of the tile dest
EstimateNetworkCosts ==
    /\ pipe_pc = "estimate"
    /\ Len(pipe_at.calls) <= MaxMsgs
    /\ \E src \in Tiles, dest \in Tiles :
          LET returned ==
                  sim_estimate_network_costs(TileX(src), TileY(src),
                                             TileX(dest), TileY(dest))
          IN  /\ tiles' = [tiles EXCEPT
                              ![dest] = DestHops(@, TileX(src), TileY(src),
                                                 TileX(dest), TileY(dest))]
              /\ pipe_at' = [pipe_at EXCEPT
                                !.calls = Append(@, [src |-> src,
                                                     dest |-> dest,
                                                     returned |-> returned])]
    /\ UNCHANGED <<arch, neurons, next_message_generation_delay,
                   ts_messages, messages_in, pipe_pc, units>>
    /\ SchedulerUnused

\* sim_reset_measurements between two timesteps
ResetTiles ==
    /\ pipe_pc = "estimate"
    /\ pipe_at.calls # <<>>
    /\ next_message_generation_delay' = [c \in PipeCoreIds |-> 0]
    /\ ts_messages' = [c \in PipeCoreIds |-> <<>>]
    /\ messages_in' = [c \in PipeCoreIds |-> <<>>]
    /\ units' = [c \in PipeCoreIds |-> NoCalls]
    /\ tiles' = [t \in Tiles |-> NoHops]
    /\ pipe_at' = [calls |-> <<>>]
    /\ UNCHANGED <<arch, neurons, pipe_pc>>
    /\ SchedulerUnused

NextTiles ==
    \/ EstimateNetworkCosts
    \/ ResetTiles

SpecTiles == InitTiles /\ [][NextTiles]_vars

\* the step is a call of sim_estimate_network_costs
Estimated ==
    /\ pipe_pc = "estimate"
    /\ Len(pipe_at'.calls) = Len(pipe_at.calls) + 1

\* the call the step made
TheCall == pipe_at'.calls[Len(pipe_at'.calls)]

\* how far the destination of the call lies in each direction
HopsEast(call) ==
    IF TileX(call.dest) > TileX(call.src)
    THEN TileX(call.dest) - TileX(call.src) ELSE 0
HopsWest(call) ==
    IF TileX(call.dest) < TileX(call.src)
    THEN TileX(call.src) - TileX(call.dest) ELSE 0
HopsNorth(call) ==
    IF TileY(call.dest) > TileY(call.src)
    THEN TileY(call.dest) - TileY(call.src) ELSE 0
HopsSouth(call) ==
    IF TileY(call.dest) < TileY(call.src)
    THEN TileY(call.src) - TileY(call.dest) ELSE 0

\* the calls since the last reset that had the tile t as destination
CallsTo(t) == { k \in 1..Len(pipe_at.calls) : pipe_at.calls[k].dest = t }

\* C39 as stated: a call of sim_estimate_network_costs changes no counter
\* of the source tile
C39_SourceUntouched ==
    [][Estimated => tiles'[TheCall.src] = tiles[TheCall.src]]_vars

\* C39: after any sequence of sim_estimate_network_costs calls since the
\* last reset every tile has hops = east_hops + west_hops + north_hops +
\* south_hops and messages_received = the number of calls with the tile as
\* destination; each call returns |dx| times the east or west hop latency
\* plus |dy| times the north or south hop latency, for the direction
\* travelled, and changes no counter of a tile other than the destination
\* (the source tile is counted on when it is the destination)
C39_TileCounters ==
    /\ [][Estimated =>
            /\ \A t \in Tiles \ {TheCall.dest} : tiles'[t] = tiles[t]
            /\ TheCall.returned =
                   HopsEast(TheCall) * arch.hw.tile.latency_east_hop
                   + HopsWest(TheCall) * arch.hw.tile.latency_west_hop
                   + HopsNorth(TheCall) * arch.hw.tile.latency_north_hop
                   + HopsSouth(TheCall) * arch.hw.tile.latency_south_hop]_vars
    /\ [](pipe_pc = "estimate" =>
            \A t \in Tiles :
                /\ tiles[t].hops = tiles[t].east_hops + tiles[t].west_hops
                                   + tiles[t].north_hops + tiles[t].south_hops
                /\ tiles[t].messages_received = Cardinality(CallsTo(t)))

\* since the last reset a tile was sent a message by itself and one from
\* the south-west, over one hop to the east and one to the north
C39_Witness ==
    /\ pipe_pc = "estimate"
    /\ \E i, j \in 1..Len(pipe_at.calls) :
          LET own == pipe_at.calls[i]
              far == pipe_at.calls[j]
          IN  /\ own.src = own.dest
              /\ far.dest = own.dest
              /\ HopsEast(far) = 1
              /\ HopsNorth(far) = 1
              /\ tiles[own.dest].messages_received = 2
              /\ tiles[own.dest].hops = 2
              /\ tiles[own.src].east_hops = 1
              /\ tiles[own.src].north_hops = 1

\* the step pops the list: sim_pop_priority_queue and sim_message_fifo_pop
ListPopped == list_pc = "pop" /\ list_pc' = "next"

\* the list is in non-decreasing order of the sent_timestamp of the next
\* message of its queues
ListSorted ==
    \A i, j \in 1..Len(priority_queue) :
        i < j => TailSent(message_queues, priority_queue[i])
                     <= TailSent(message_queues, priority_queue[j])

\* C40: the list-based priority queue stays sorted: after any sequence of
\* sim_insert_priority_queue and sim_pop_priority_queue calls the queues
\* in the list are in non-decreasing order of the sent_timestamp of their
\* next message, every queue in the list has a next message, no queue is
\* in the list twice, and sim_pop_priority_queue returns a queue whose
\* next message has the minimum sent_timestamp of the list
C40_ListSorted ==
    /\ [](/\ \A i \in 1..Len(priority_queue) :
                message_queues[priority_queue[i]] # <<>>
          /\ ListSorted
          /\ \A i, j \in 1..Len(priority_queue) :
                i # j => priority_queue[i] # priority_queue[j])
    /\ [][ListPopped =>
            /\ q_cur' = priority_queue[1]
            /\ m_sent' = TailSent(message_queues, q_cur')
            /\ \A i \in 1..Len(priority_queue) :
                  m_sent' <= TailSent(message_queues, priority_queue[i])
            /\ \A i \in 1..Len(priority_queue') :
                  priority_queue'[i] # q_cur']_vars

\* the queue of a core was put back into the list between two queues, one
\* with an earlier and one with a later next message
C40_Witness ==
    /\ list_pc = "pop"
    /\ Len(priority_queue) = 3
    /\ insertions > 3
    /\ inserted_at[priority_queue[2]] = insertions
    /\ TailSent(message_queues, priority_queue[1])
           < TailSent(message_queues, priority_queue[2])
    /\ TailSent(message_queues, priority_queue[2])
           < TailSent(message_queues, priority_queue[3])

====
